---- MODULE Spec2Model ----
(***************************************************************************)
(* A model of the track-resolution and migration core of                   *)
(* spotify-to-ytmusic: the error taxonomy and categorizer                  *)
(* (exceptions.py, utils/retry.py), the retry wrapper (utils/retry.py),    *)
(* the track matcher and the playlist migration                            *)
(* (services/ytmusic_service.py), the source reader's playlist listing     *)
(* (services/spotify_service.py) and the commands of cli.py.               *)
(*                                                                         *)
(* Text is modelled by TLA+ strings (Len, SubSeq and \o act on them), so   *)
(* that lower-casing and substring containment are computed, not assumed.  *)
(* Times are integers in one fixed unit.                                   *)
(***************************************************************************)
EXTENDS Integers, Sequences, FiniteSets, TLC

VARIABLES
    mode,      \* which entry point this behaviour exercises
    pol,       \* retry_with_backoff's arguments and the wrapped function's name
    rs,        \* the running wrapper: attempt, delay, calls, waits, status, ...
    hist,      \* the outcomes of the wrapped function's invocations, in order
    cat,       \* categorize_api_error: the error given and the error returned
    mt,        \* search_track's body: the track, the destination's answers, the outcome
    mg,        \* migrate_playlist: the playlist, position, lists, destination state
    cli        \* a command of the command line: arguments, position, exit code

vars == <<mode, pol, rs, hist, cat, mt, mg, cli>>

----------------------------------------------------------------------------
(* Bounds of the model. *)

MaxAttemptsBound == 3      \* max_attempts ranges over 0..MaxAttemptsBound
MaxHint == 3               \* retry-after hints range over 0..MaxHint
MaxFragments == 2          \* an error message is at most this many fragments long
MaxResults == 2            \* a destination search answers with at most this many results
MaxTracks == 2             \* a source playlist has at most this many tracks
MaxPlaylists == 2          \* the source lists at most this many playlists
MaxLimit == 2              \* --limit ranges over -MaxLimit..MaxLimit
MaxTotal == 10             \* a MigrationResult built directly counts at most this many tracks

----------------------------------------------------------------------------
(* Text. *)

Min(a, b) == IF a <= b THEN a ELSE b

\* A string of this module holds the characters a string literal can be
\* written with: the printable ASCII characters, U+00A1..U+00FF and the
\* characters of the basic plane whose code ends in 0x80..0xFF (half of
\* every block: most of the Greek capitals, for instance, and none of the
\* Cyrillic ones).  The tables below are str.lower()'s, restricted to these
\* characters.

\* The characters str.lower() changes into characters a string can hold.
LowerMap ==
    (("A" :> "a") @@ ("B" :> "b") @@ ("C" :> "c") @@ ("D" :> "d")
        @@ ("E" :> "e") @@ ("F" :> "f") @@ ("G" :> "g") @@ ("H" :> "h")
        @@ ("I" :> "i") @@ ("J" :> "j") @@ ("K" :> "k") @@ ("L" :> "l")
        @@ ("M" :> "m") @@ ("N" :> "n") @@ ("O" :> "o") @@ ("P" :> "p")
        @@ ("Q" :> "q") @@ ("R" :> "r") @@ ("S" :> "s") @@ ("T" :> "t")
        @@ ("U" :> "u") @@ ("V" :> "v") @@ ("W" :> "w") @@ ("X" :> "x"))
    @@ (("Y" :> "y") @@ ("Z" :> "z") @@ ("À" :> "à") @@ ("Á" :> "á")
        @@ ("Â" :> "â") @@ ("Ã" :> "ã") @@ ("Ä" :> "ä") @@ ("Å" :> "å")
        @@ ("Æ" :> "æ") @@ ("Ç" :> "ç") @@ ("È" :> "è") @@ ("É" :> "é")
        @@ ("Ê" :> "ê") @@ ("Ë" :> "ë") @@ ("Ì" :> "ì") @@ ("Í" :> "í")
        @@ ("Î" :> "î") @@ ("Ï" :> "ï") @@ ("Ð" :> "ð") @@ ("Ñ" :> "ñ")
        @@ ("Ò" :> "ò") @@ ("Ó" :> "ó") @@ ("Ô" :> "ô") @@ ("Õ" :> "õ"))
    @@ (("Ö" :> "ö") @@ ("Ø" :> "ø") @@ ("Ù" :> "ù") @@ ("Ú" :> "ú")
        @@ ("Û" :> "û") @@ ("Ü" :> "ü") @@ ("Ý" :> "ý") @@ ("Þ" :> "þ")
        @@ ("Ƃ" :> "ƃ") @@ ("Ƅ" :> "ƅ") @@ ("Ƈ" :> "ƈ") @@ ("Ƌ" :> "ƌ")
        @@ ("Ǝ" :> "ǝ") @@ ("Ƒ" :> "ƒ") @@ ("Ƙ" :> "ƙ") @@ ("Ơ" :> "ơ")
        @@ ("Ƣ" :> "ƣ") @@ ("Ƥ" :> "ƥ") @@ ("Ʀ" :> "ʀ") @@ ("Ƨ" :> "ƨ")
        @@ ("Ʃ" :> "ʃ") @@ ("Ƭ" :> "ƭ") @@ ("Ʈ" :> "ʈ") @@ ("Ư" :> "ư"))
    @@ (("Ʊ" :> "ʊ") @@ ("Ʋ" :> "ʋ") @@ ("Ƴ" :> "ƴ") @@ ("Ƶ" :> "ƶ")
        @@ ("Ʒ" :> "ʒ") @@ ("Ƹ" :> "ƹ") @@ ("Ƽ" :> "ƽ") @@ ("Ǆ" :> "ǆ")
        @@ ("ǅ" :> "ǆ") @@ ("Ǉ" :> "ǉ") @@ ("ǈ" :> "ǉ") @@ ("Ǌ" :> "ǌ")
        @@ ("ǋ" :> "ǌ") @@ ("Ǎ" :> "ǎ") @@ ("Ǐ" :> "ǐ") @@ ("Ǒ" :> "ǒ")
        @@ ("Ǔ" :> "ǔ") @@ ("Ǖ" :> "ǖ") @@ ("Ǘ" :> "ǘ") @@ ("Ǚ" :> "ǚ")
        @@ ("Ǜ" :> "ǜ") @@ ("Ǟ" :> "ǟ") @@ ("Ǡ" :> "ǡ") @@ ("Ǣ" :> "ǣ"))
    @@ (("Ǥ" :> "ǥ") @@ ("Ǧ" :> "ǧ") @@ ("Ǩ" :> "ǩ") @@ ("Ǫ" :> "ǫ")
        @@ ("Ǭ" :> "ǭ") @@ ("Ǯ" :> "ǯ") @@ ("Ǳ" :> "ǳ") @@ ("ǲ" :> "ǳ")
        @@ ("Ǵ" :> "ǵ") @@ ("Ƕ" :> "ƕ") @@ ("Ƿ" :> "ƿ") @@ ("Ǹ" :> "ǹ")
        @@ ("Ǻ" :> "ǻ") @@ ("Ǽ" :> "ǽ") @@ ("Ǿ" :> "ǿ") @@ ("Ά" :> "ά")
        @@ ("Έ" :> "έ") @@ ("Ή" :> "ή") @@ ("Ί" :> "ί") @@ ("Ό" :> "ό")
        @@ ("Ύ" :> "ύ") @@ ("Ώ" :> "ώ") @@ ("Α" :> "α") @@ ("Β" :> "β"))
    @@ (("Γ" :> "γ") @@ ("Δ" :> "δ") @@ ("Ε" :> "ε") @@ ("Ζ" :> "ζ")
        @@ ("Η" :> "η") @@ ("Θ" :> "θ") @@ ("Ι" :> "ι") @@ ("Κ" :> "κ")
        @@ ("Λ" :> "λ") @@ ("Μ" :> "μ") @@ ("Ν" :> "ν") @@ ("Ξ" :> "ξ")
        @@ ("Ο" :> "ο") @@ ("Π" :> "π") @@ ("Ρ" :> "ρ") @@ ("Σ" :> "σ")
        @@ ("Τ" :> "τ") @@ ("Υ" :> "υ") @@ ("Φ" :> "φ") @@ ("Χ" :> "χ")
        @@ ("Ψ" :> "ψ") @@ ("Ω" :> "ω") @@ ("Ϊ" :> "ϊ") @@ ("Ϋ" :> "ϋ"))
    @@ (("Ϗ" :> "ϗ") @@ ("Ϙ" :> "ϙ") @@ ("Ϛ" :> "ϛ") @@ ("Ϝ" :> "ϝ")
        @@ ("Ϟ" :> "ϟ") @@ ("Ϡ" :> "ϡ") @@ ("Ϣ" :> "ϣ") @@ ("Ϥ" :> "ϥ")
        @@ ("Ϧ" :> "ϧ") @@ ("Ϩ" :> "ϩ") @@ ("Ϫ" :> "ϫ") @@ ("Ϭ" :> "ϭ")
        @@ ("Ϯ" :> "ϯ") @@ ("ϴ" :> "θ") @@ ("Ϸ" :> "ϸ") @@ ("Ϲ" :> "ϲ")
        @@ ("Ϻ" :> "ϻ") @@ ("Ҁ" :> "ҁ") @@ ("Ҋ" :> "ҋ") @@ ("Ҍ" :> "ҍ")
        @@ ("Ҏ" :> "ҏ") @@ ("Ґ" :> "ґ") @@ ("Ғ" :> "ғ") @@ ("Ҕ" :> "ҕ"))
    @@ (("Җ" :> "җ") @@ ("Ҙ" :> "ҙ") @@ ("Қ" :> "қ") @@ ("Ҝ" :> "ҝ")
        @@ ("Ҟ" :> "ҟ") @@ ("Ҡ" :> "ҡ") @@ ("Ң" :> "ң") @@ ("Ҥ" :> "ҥ")
        @@ ("Ҧ" :> "ҧ") @@ ("Ҩ" :> "ҩ") @@ ("Ҫ" :> "ҫ") @@ ("Ҭ" :> "ҭ")
        @@ ("Ү" :> "ү") @@ ("Ұ" :> "ұ") @@ ("Ҳ" :> "ҳ") @@ ("Ҵ" :> "ҵ")
        @@ ("Ҷ" :> "ҷ") @@ ("Ҹ" :> "ҹ") @@ ("Һ" :> "һ") @@ ("Ҽ" :> "ҽ")
        @@ ("Ҿ" :> "ҿ") @@ ("Ӏ" :> "ӏ") @@ ("Ӂ" :> "ӂ") @@ ("Ӄ" :> "ӄ"))
    @@ (("Ӆ" :> "ӆ") @@ ("Ӈ" :> "ӈ") @@ ("Ӊ" :> "ӊ") @@ ("Ӌ" :> "ӌ")
        @@ ("Ӎ" :> "ӎ") @@ ("Ӑ" :> "ӑ") @@ ("Ӓ" :> "ӓ") @@ ("Ӕ" :> "ӕ")
        @@ ("Ӗ" :> "ӗ") @@ ("Ә" :> "ә") @@ ("Ӛ" :> "ӛ") @@ ("Ӝ" :> "ӝ")
        @@ ("Ӟ" :> "ӟ") @@ ("Ӡ" :> "ӡ") @@ ("Ӣ" :> "ӣ") @@ ("Ӥ" :> "ӥ")
        @@ ("Ӧ" :> "ӧ") @@ ("Ө" :> "ө") @@ ("Ӫ" :> "ӫ") @@ ("Ӭ" :> "ӭ")
        @@ ("Ӯ" :> "ӯ") @@ ("Ӱ" :> "ӱ") @@ ("Ӳ" :> "ӳ") @@ ("Ӵ" :> "ӵ"))
    @@ (("Ӷ" :> "ӷ") @@ ("Ӹ" :> "ӹ") @@ ("Ӻ" :> "ӻ") @@ ("Ӽ" :> "ӽ")
        @@ ("Ӿ" :> "ӿ") @@ ("Ꮀ" :> "ꮀ") @@ ("Ꮁ" :> "ꮁ") @@ ("Ꮂ" :> "ꮂ")
        @@ ("Ꮃ" :> "ꮃ") @@ ("Ꮄ" :> "ꮄ") @@ ("Ꮅ" :> "ꮅ") @@ ("Ꮆ" :> "ꮆ")
        @@ ("Ꮇ" :> "ꮇ") @@ ("Ꮈ" :> "ꮈ") @@ ("Ꮉ" :> "ꮉ") @@ ("Ꮊ" :> "ꮊ")
        @@ ("Ꮋ" :> "ꮋ") @@ ("Ꮌ" :> "ꮌ") @@ ("Ꮍ" :> "ꮍ") @@ ("Ꮎ" :> "ꮎ")
        @@ ("Ꮏ" :> "ꮏ") @@ ("Ꮐ" :> "ꮐ") @@ ("Ꮑ" :> "ꮑ") @@ ("Ꮒ" :> "ꮒ"))
    @@ (("Ꮓ" :> "ꮓ") @@ ("Ꮔ" :> "ꮔ") @@ ("Ꮕ" :> "ꮕ") @@ ("Ꮖ" :> "ꮖ")
        @@ ("Ꮗ" :> "ꮗ") @@ ("Ꮘ" :> "ꮘ") @@ ("Ꮙ" :> "ꮙ") @@ ("Ꮚ" :> "ꮚ")
        @@ ("Ꮛ" :> "ꮛ") @@ ("Ꮜ" :> "ꮜ") @@ ("Ꮝ" :> "ꮝ") @@ ("Ꮞ" :> "ꮞ")
        @@ ("Ꮟ" :> "ꮟ") @@ ("Ꮠ" :> "ꮠ") @@ ("Ꮡ" :> "ꮡ") @@ ("Ꮢ" :> "ꮢ")
        @@ ("Ꮣ" :> "ꮣ") @@ ("Ꮤ" :> "ꮤ") @@ ("Ꮥ" :> "ꮥ") @@ ("Ꮦ" :> "ꮦ")
        @@ ("Ꮧ" :> "ꮧ") @@ ("Ꮨ" :> "ꮨ") @@ ("Ꮩ" :> "ꮩ") @@ ("Ꮪ" :> "ꮪ"))
    @@ (("Ꮫ" :> "ꮫ") @@ ("Ꮬ" :> "ꮬ") @@ ("Ꮭ" :> "ꮭ") @@ ("Ꮮ" :> "ꮮ")
        @@ ("Ꮯ" :> "ꮯ") @@ ("Ꮰ" :> "ꮰ") @@ ("Ꮱ" :> "ꮱ") @@ ("Ꮲ" :> "ꮲ")
        @@ ("Ꮳ" :> "ꮳ") @@ ("Ꮴ" :> "ꮴ") @@ ("Ꮵ" :> "ꮵ") @@ ("Ꮶ" :> "ꮶ")
        @@ ("Ꮷ" :> "ꮷ") @@ ("Ꮸ" :> "ꮸ") @@ ("Ꮹ" :> "ꮹ") @@ ("Ꮺ" :> "ꮺ")
        @@ ("Ꮻ" :> "ꮻ") @@ ("Ꮼ" :> "ꮼ") @@ ("Ꮽ" :> "ꮽ") @@ ("Ꮾ" :> "ꮾ")
        @@ ("Ꮿ" :> "ꮿ") @@ ("Ᏸ" :> "ᏸ") @@ ("Ᏹ" :> "ᏹ") @@ ("Ᏺ" :> "ᏺ"))
    @@ (("Ᏻ" :> "ᏻ") @@ ("Ᏼ" :> "ᏼ") @@ ("Ᏽ" :> "ᏽ") @@ ("Ა" :> "ა")
        @@ ("Ბ" :> "ბ") @@ ("Გ" :> "გ") @@ ("Დ" :> "დ") @@ ("Ე" :> "ე")
        @@ ("Ვ" :> "ვ") @@ ("Ზ" :> "ზ") @@ ("Თ" :> "თ") @@ ("Ი" :> "ი")
        @@ ("Კ" :> "კ") @@ ("Ლ" :> "ლ") @@ ("Მ" :> "მ") @@ ("Ნ" :> "ნ")
        @@ ("Ო" :> "ო") @@ ("Პ" :> "პ") @@ ("Ჟ" :> "ჟ") @@ ("Რ" :> "რ")
        @@ ("Ს" :> "ს") @@ ("Ტ" :> "ტ") @@ ("Უ" :> "უ") @@ ("Ფ" :> "ფ"))
    @@ (("Ქ" :> "ქ") @@ ("Ღ" :> "ღ") @@ ("Ყ" :> "ყ") @@ ("Შ" :> "შ")
        @@ ("Ჩ" :> "ჩ") @@ ("Ც" :> "ც") @@ ("Ძ" :> "ძ") @@ ("Წ" :> "წ")
        @@ ("Ჭ" :> "ჭ") @@ ("Ხ" :> "ხ") @@ ("Ჯ" :> "ჯ") @@ ("Ჰ" :> "ჰ")
        @@ ("Ჱ" :> "ჱ") @@ ("Ჲ" :> "ჲ") @@ ("Ჳ" :> "ჳ") @@ ("Ჴ" :> "ჴ")
        @@ ("Ჵ" :> "ჵ") @@ ("Ჶ" :> "ჶ") @@ ("Ჷ" :> "ჷ") @@ ("Ჸ" :> "ჸ")
        @@ ("Ჹ" :> "ჹ") @@ ("Ჺ" :> "ჺ") @@ ("Ჽ" :> "ჽ") @@ ("Ჾ" :> "ჾ"))
    @@ (("Ჿ" :> "ჿ") @@ ("Ẁ" :> "ẁ") @@ ("Ẃ" :> "ẃ") @@ ("Ẅ" :> "ẅ")
        @@ ("Ẇ" :> "ẇ") @@ ("Ẉ" :> "ẉ") @@ ("Ẋ" :> "ẋ") @@ ("Ẍ" :> "ẍ")
        @@ ("Ẏ" :> "ẏ") @@ ("Ẑ" :> "ẑ") @@ ("Ẓ" :> "ẓ") @@ ("Ẕ" :> "ẕ")
        @@ ("ẞ" :> "ß") @@ ("Ạ" :> "ạ") @@ ("Ả" :> "ả") @@ ("Ấ" :> "ấ")
        @@ ("Ầ" :> "ầ") @@ ("Ẩ" :> "ẩ") @@ ("Ẫ" :> "ẫ") @@ ("Ậ" :> "ậ")
        @@ ("Ắ" :> "ắ") @@ ("Ằ" :> "ằ") @@ ("Ẳ" :> "ẳ") @@ ("Ẵ" :> "ẵ"))
    @@ (("Ặ" :> "ặ") @@ ("Ẹ" :> "ẹ") @@ ("Ẻ" :> "ẻ") @@ ("Ẽ" :> "ẽ")
        @@ ("Ế" :> "ế") @@ ("Ề" :> "ề") @@ ("Ể" :> "ể") @@ ("Ễ" :> "ễ")
        @@ ("Ệ" :> "ệ") @@ ("Ỉ" :> "ỉ") @@ ("Ị" :> "ị") @@ ("Ọ" :> "ọ")
        @@ ("Ỏ" :> "ỏ") @@ ("Ố" :> "ố") @@ ("Ồ" :> "ồ") @@ ("Ổ" :> "ổ")
        @@ ("Ỗ" :> "ỗ") @@ ("Ộ" :> "ộ") @@ ("Ớ" :> "ớ") @@ ("Ờ" :> "ờ")
        @@ ("Ở" :> "ở") @@ ("Ỡ" :> "ỡ") @@ ("Ợ" :> "ợ") @@ ("Ụ" :> "ụ"))
    @@ (("Ủ" :> "ủ") @@ ("Ứ" :> "ứ") @@ ("Ừ" :> "ừ") @@ ("Ử" :> "ử")
        @@ ("Ữ" :> "ữ") @@ ("Ự" :> "ự") @@ ("Ỳ" :> "ỳ") @@ ("Ỵ" :> "ỵ")
        @@ ("Ỷ" :> "ỷ") @@ ("Ỹ" :> "ỹ") @@ ("Ỻ" :> "ỻ") @@ ("Ỽ" :> "ỽ")
        @@ ("Ỿ" :> "ỿ") @@ ("ᾈ" :> "ᾀ") @@ ("ᾉ" :> "ᾁ") @@ ("ᾊ" :> "ᾂ")
        @@ ("ᾋ" :> "ᾃ") @@ ("ᾌ" :> "ᾄ") @@ ("ᾍ" :> "ᾅ") @@ ("ᾎ" :> "ᾆ")
        @@ ("ᾏ" :> "ᾇ") @@ ("ᾘ" :> "ᾐ") @@ ("ᾙ" :> "ᾑ") @@ ("ᾚ" :> "ᾒ"))
    @@ (("ᾛ" :> "ᾓ") @@ ("ᾜ" :> "ᾔ") @@ ("ᾝ" :> "ᾕ") @@ ("ᾞ" :> "ᾖ")
        @@ ("ᾟ" :> "ᾗ") @@ ("ᾨ" :> "ᾠ") @@ ("ᾩ" :> "ᾡ") @@ ("ᾪ" :> "ᾢ")
        @@ ("ᾫ" :> "ᾣ") @@ ("ᾬ" :> "ᾤ") @@ ("ᾭ" :> "ᾥ") @@ ("ᾮ" :> "ᾦ")
        @@ ("ᾯ" :> "ᾧ") @@ ("Ᾰ" :> "ᾰ") @@ ("Ᾱ" :> "ᾱ") @@ ("ᾼ" :> "ᾳ")
        @@ ("ῌ" :> "ῃ") @@ ("Ῐ" :> "ῐ") @@ ("Ῑ" :> "ῑ") @@ ("Ῠ" :> "ῠ")
        @@ ("Ῡ" :> "ῡ") @@ ("Ῥ" :> "ῥ") @@ ("ῼ" :> "ῳ") @@ ("Ↄ" :> "ↄ"))
    @@ (("Ⓐ" :> "ⓐ") @@ ("Ⓑ" :> "ⓑ") @@ ("Ⓒ" :> "ⓒ") @@ ("Ⓓ" :> "ⓓ")
        @@ ("Ⓔ" :> "ⓔ") @@ ("Ⓕ" :> "ⓕ") @@ ("Ⓖ" :> "ⓖ") @@ ("Ⓗ" :> "ⓗ")
        @@ ("Ⓘ" :> "ⓘ") @@ ("Ⓙ" :> "ⓙ") @@ ("Ⓚ" :> "ⓚ") @@ ("Ⓛ" :> "ⓛ")
        @@ ("Ⓜ" :> "ⓜ") @@ ("Ⓝ" :> "ⓝ") @@ ("Ⓞ" :> "ⓞ") @@ ("Ⓟ" :> "ⓟ")
        @@ ("Ⓠ" :> "ⓠ") @@ ("Ⓡ" :> "ⓡ") @@ ("Ⓢ" :> "ⓢ") @@ ("Ⓣ" :> "ⓣ")
        @@ ("Ⓤ" :> "ⓤ") @@ ("Ⓥ" :> "ⓥ") @@ ("Ⓦ" :> "ⓦ") @@ ("Ⓧ" :> "ⓧ"))
    @@ (("Ⓨ" :> "ⓨ") @@ ("Ⓩ" :> "ⓩ") @@ ("Ⲁ" :> "ⲁ") @@ ("Ⲃ" :> "ⲃ")
        @@ ("Ⲅ" :> "ⲅ") @@ ("Ⲇ" :> "ⲇ") @@ ("Ⲉ" :> "ⲉ") @@ ("Ⲋ" :> "ⲋ")
        @@ ("Ⲍ" :> "ⲍ") @@ ("Ⲏ" :> "ⲏ") @@ ("Ⲑ" :> "ⲑ") @@ ("Ⲓ" :> "ⲓ")
        @@ ("Ⲕ" :> "ⲕ") @@ ("Ⲗ" :> "ⲗ") @@ ("Ⲙ" :> "ⲙ") @@ ("Ⲛ" :> "ⲛ")
        @@ ("Ⲝ" :> "ⲝ") @@ ("Ⲟ" :> "ⲟ") @@ ("Ⲡ" :> "ⲡ") @@ ("Ⲣ" :> "ⲣ")
        @@ ("Ⲥ" :> "ⲥ") @@ ("Ⲧ" :> "ⲧ") @@ ("Ⲩ" :> "ⲩ") @@ ("Ⲫ" :> "ⲫ"))
    @@ (("Ⲭ" :> "ⲭ") @@ ("Ⲯ" :> "ⲯ") @@ ("Ⲱ" :> "ⲱ") @@ ("Ⲳ" :> "ⲳ")
        @@ ("Ⲵ" :> "ⲵ") @@ ("Ⲷ" :> "ⲷ") @@ ("Ⲹ" :> "ⲹ") @@ ("Ⲻ" :> "ⲻ")
        @@ ("Ⲽ" :> "ⲽ") @@ ("Ⲿ" :> "ⲿ") @@ ("Ⳁ" :> "ⳁ") @@ ("Ⳃ" :> "ⳃ")
        @@ ("Ⳅ" :> "ⳅ") @@ ("Ⳇ" :> "ⳇ") @@ ("Ⳉ" :> "ⳉ") @@ ("Ⳋ" :> "ⳋ")
        @@ ("Ⳍ" :> "ⳍ") @@ ("Ⳏ" :> "ⳏ") @@ ("Ⳑ" :> "ⳑ") @@ ("Ⳓ" :> "ⳓ")
        @@ ("Ⳕ" :> "ⳕ") @@ ("Ⳗ" :> "ⳗ") @@ ("Ⳙ" :> "ⳙ") @@ ("Ⳛ" :> "ⳛ"))
    @@ (("Ⳝ" :> "ⳝ") @@ ("Ⳟ" :> "ⳟ") @@ ("Ⳡ" :> "ⳡ") @@ ("Ⳣ" :> "ⳣ")
        @@ ("Ⳬ" :> "ⳬ") @@ ("Ⳮ" :> "ⳮ") @@ ("Ⳳ" :> "ⳳ") @@ ("Ꚁ" :> "ꚁ")
        @@ ("Ꚃ" :> "ꚃ") @@ ("Ꚅ" :> "ꚅ") @@ ("Ꚇ" :> "ꚇ") @@ ("Ꚉ" :> "ꚉ")
        @@ ("Ꚋ" :> "ꚋ") @@ ("Ꚍ" :> "ꚍ") @@ ("Ꚏ" :> "ꚏ") @@ ("Ꚑ" :> "ꚑ")
        @@ ("Ꚓ" :> "ꚓ") @@ ("Ꚕ" :> "ꚕ") @@ ("Ꚗ" :> "ꚗ") @@ ("Ꚙ" :> "ꚙ")
        @@ ("Ꚛ" :> "ꚛ") @@ ("Ꞁ" :> "ꞁ") @@ ("Ꞃ" :> "ꞃ") @@ ("Ꞅ" :> "ꞅ"))
    @@ (("Ꞇ" :> "ꞇ") @@ ("Ꞌ" :> "ꞌ") @@ ("Ꞑ" :> "ꞑ") @@ ("Ꞓ" :> "ꞓ")
        @@ ("Ꞗ" :> "ꞗ") @@ ("Ꞙ" :> "ꞙ") @@ ("Ꞛ" :> "ꞛ") @@ ("Ꞝ" :> "ꞝ")
        @@ ("Ꞟ" :> "ꞟ") @@ ("Ꞡ" :> "ꞡ") @@ ("Ꞣ" :> "ꞣ") @@ ("Ꞥ" :> "ꞥ")
        @@ ("Ꞧ" :> "ꞧ") @@ ("Ꞩ" :> "ꞩ") @@ ("Ʞ" :> "ʞ") @@ ("Ʇ" :> "ʇ")
        @@ ("Ʝ" :> "ʝ") @@ ("Ꞵ" :> "ꞵ") @@ ("Ꞷ" :> "ꞷ") @@ ("Ꞹ" :> "ꞹ")
        @@ ("Ꞻ" :> "ꞻ") @@ ("Ꞽ" :> "ꞽ") @@ ("Ꞿ" :> "ꞿ") @@ ("Ꟁ" :> "ꟁ"))
    @@ (("Ꟃ" :> "ꟃ") @@ ("Ꞔ" :> "ꞔ") @@ ("Ʂ" :> "ʂ") @@ ("Ᶎ" :> "ᶎ")
        @@ ("Ꟈ" :> "ꟈ") @@ ("Ꟊ" :> "ꟊ") @@ ("Ꟑ" :> "ꟑ") @@ ("Ꟗ" :> "ꟗ")
        @@ ("Ꟙ" :> "ꟙ") @@ ("Ꟶ" :> "ꟶ"))

\* The characters str.lower() changes into a character no string of this
\* module can hold: the model has no value for them.
LowerOutOfReach ==
    {"Ɓ", "Ɔ", "Ɖ", "Ɗ", "Ə", "Ɛ", "Ɠ", "Ɣ", "Ɩ", "Ɨ", "Ɯ", "Ɲ", "Ɵ", "Ͻ", "Ͼ", "Ͽ",
     "Ⴀ", "Ⴁ", "Ⴂ", "Ⴃ", "Ⴄ", "Ⴅ", "Ⴆ", "Ⴇ", "Ⴈ", "Ⴉ", "Ⴊ", "Ⴋ", "Ⴌ", "Ⴍ", "Ⴎ", "Ⴏ",
     "Ⴐ", "Ⴑ", "Ⴒ", "Ⴓ", "Ⴔ", "Ⴕ", "Ⴖ", "Ⴗ", "Ⴘ", "Ⴙ", "Ⴚ", "Ⴛ", "Ⴜ", "Ⴝ", "Ⴞ", "Ⴟ",
     "Ⴠ", "Ⴡ", "Ⴢ", "Ⴣ", "Ⴤ", "Ⴥ", "Ⴧ", "Ⴭ", "Ꭰ", "Ꭱ", "Ꭲ", "Ꭳ", "Ꭴ", "Ꭵ", "Ꭶ", "Ꭷ",
     "Ꭸ", "Ꭹ", "Ꭺ", "Ꭻ", "Ꭼ", "Ꭽ", "Ꭾ", "Ꭿ", "Ὰ", "Ά", "Ὲ", "Έ", "Ὴ", "Ή", "Ὶ", "Ί",
     "Ὺ", "Ύ", "Ὸ", "Ό", "Ὼ", "Ώ", "Ɥ", "Ɦ", "Ɜ", "Ɡ", "Ɬ", "Ɪ", "Ꭓ"}

\* The cased characters that are not case-ignorable.
Cased ==
    {"A", "B", "C", "D", "E", "F", "G", "H", "I", "J", "K", "L", "M", "N", "O", "P",
     "Q", "R", "S", "T", "U", "V", "W", "X", "Y", "Z", "a", "b", "c", "d", "e", "f",
     "g", "h", "i", "j", "k", "l", "m", "n", "o", "p", "q", "r", "s", "t", "u", "v",
     "w", "x", "y", "z", "ª", "µ", "º", "À", "Á", "Â", "Ã", "Ä", "Å", "Æ", "Ç", "È",
     "É", "Ê", "Ë", "Ì", "Í", "Î", "Ï", "Ð", "Ñ", "Ò", "Ó", "Ô", "Õ", "Ö", "Ø", "Ù",
     "Ú", "Û", "Ü", "Ý", "Þ", "ß", "à", "á", "â", "ã", "ä", "å", "æ", "ç", "è", "é",
     "ê", "ë", "ì", "í", "î", "ï", "ð", "ñ", "ò", "ó", "ô", "õ", "ö", "ø", "ù", "ú",
     "û", "ü", "ý", "þ", "ÿ", "ƀ", "Ɓ", "Ƃ", "ƃ", "Ƅ", "ƅ", "Ɔ", "Ƈ", "ƈ", "Ɖ", "Ɗ",
     "Ƌ", "ƌ", "ƍ", "Ǝ", "Ə", "Ɛ", "Ƒ", "ƒ", "Ɠ", "Ɣ", "ƕ", "Ɩ", "Ɨ", "Ƙ", "ƙ", "ƚ",
     "ƛ", "Ɯ", "Ɲ", "ƞ", "Ɵ", "Ơ", "ơ", "Ƣ", "ƣ", "Ƥ", "ƥ", "Ʀ", "Ƨ", "ƨ", "Ʃ", "ƪ",
     "ƫ", "Ƭ", "ƭ", "Ʈ", "Ư", "ư", "Ʊ", "Ʋ", "Ƴ", "ƴ", "Ƶ", "ƶ", "Ʒ", "Ƹ", "ƹ", "ƺ",
     "Ƽ", "ƽ", "ƾ", "ƿ", "Ǆ", "ǅ", "ǆ", "Ǉ", "ǈ", "ǉ", "Ǌ", "ǋ", "ǌ", "Ǎ", "ǎ", "Ǐ",
     "ǐ", "Ǒ", "ǒ", "Ǔ", "ǔ", "Ǖ", "ǖ", "Ǘ", "ǘ", "Ǚ", "ǚ", "Ǜ", "ǜ", "ǝ", "Ǟ", "ǟ",
     "Ǡ", "ǡ", "Ǣ", "ǣ", "Ǥ", "ǥ", "Ǧ", "ǧ", "Ǩ", "ǩ", "Ǫ", "ǫ", "Ǭ", "ǭ", "Ǯ", "ǯ",
     "ǰ", "Ǳ", "ǲ", "ǳ", "Ǵ", "ǵ", "Ƕ", "Ƿ", "Ǹ", "ǹ", "Ǻ", "ǻ", "Ǽ", "ǽ", "Ǿ", "ǿ",
     "ʀ", "ʁ", "ʂ", "ʃ", "ʄ", "ʅ", "ʆ", "ʇ", "ʈ", "ʉ", "ʊ", "ʋ", "ʌ", "ʍ", "ʎ", "ʏ",
     "ʐ", "ʑ", "ʒ", "ʓ", "ʕ", "ʖ", "ʗ", "ʘ", "ʙ", "ʚ", "ʛ", "ʜ", "ʝ", "ʞ", "ʟ", "ʠ",
     "ʡ", "ʢ", "ʣ", "ʤ", "ʥ", "ʦ", "ʧ", "ʨ", "ʩ", "ʪ", "ʫ", "ʬ", "ʭ", "ʮ", "ʯ", "Ά",
     "Έ", "Ή", "Ί", "Ό", "Ύ", "Ώ", "ΐ", "Α", "Β", "Γ", "Δ", "Ε", "Ζ", "Η", "Θ", "Ι",
     "Κ", "Λ", "Μ", "Ν", "Ξ", "Ο", "Π", "Ρ", "Σ", "Τ", "Υ", "Φ", "Χ", "Ψ", "Ω", "Ϊ",
     "Ϋ", "ά", "έ", "ή", "ί", "ΰ", "α", "β", "γ", "δ", "ε", "ζ", "η", "θ", "ι", "κ",
     "λ", "μ", "ν", "ξ", "ο", "π", "ρ", "ς", "σ", "τ", "υ", "φ", "χ", "ψ", "ω", "ϊ",
     "ϋ", "ό", "ύ", "ώ", "Ϗ", "ϐ", "ϑ", "ϒ", "ϓ", "ϔ", "ϕ", "ϖ", "ϗ", "Ϙ", "ϙ", "Ϛ",
     "ϛ", "Ϝ", "ϝ", "Ϟ", "ϟ", "Ϡ", "ϡ", "Ϣ", "ϣ", "Ϥ", "ϥ", "Ϧ", "ϧ", "Ϩ", "ϩ", "Ϫ",
     "ϫ", "Ϭ", "ϭ", "Ϯ", "ϯ", "ϰ", "ϱ", "ϲ", "ϳ", "ϴ", "ϵ", "Ϸ", "ϸ", "Ϲ", "Ϻ", "ϻ",
     "ϼ", "Ͻ", "Ͼ", "Ͽ", "Ҁ", "ҁ", "Ҋ", "ҋ", "Ҍ", "ҍ", "Ҏ", "ҏ", "Ґ", "ґ", "Ғ", "ғ",
     "Ҕ", "ҕ", "Җ", "җ", "Ҙ", "ҙ", "Қ", "қ", "Ҝ", "ҝ", "Ҟ", "ҟ", "Ҡ", "ҡ", "Ң", "ң",
     "Ҥ", "ҥ", "Ҧ", "ҧ", "Ҩ", "ҩ", "Ҫ", "ҫ", "Ҭ", "ҭ", "Ү", "ү", "Ұ", "ұ", "Ҳ", "ҳ",
     "Ҵ", "ҵ", "Ҷ", "ҷ", "Ҹ", "ҹ", "Һ", "һ", "Ҽ", "ҽ", "Ҿ", "ҿ", "Ӏ", "Ӂ", "ӂ", "Ӄ",
     "ӄ", "Ӆ", "ӆ", "Ӈ", "ӈ", "Ӊ", "ӊ", "Ӌ", "ӌ", "Ӎ", "ӎ", "ӏ", "Ӑ", "ӑ", "Ӓ", "ӓ",
     "Ӕ", "ӕ", "Ӗ", "ӗ", "Ә", "ә", "Ӛ", "ӛ", "Ӝ", "ӝ", "Ӟ", "ӟ", "Ӡ", "ӡ", "Ӣ", "ӣ",
     "Ӥ", "ӥ", "Ӧ", "ӧ", "Ө", "ө", "Ӫ", "ӫ", "Ӭ", "ӭ", "Ӯ", "ӯ", "Ӱ", "ӱ", "Ӳ", "ӳ",
     "Ӵ", "ӵ", "Ӷ", "ӷ", "Ӹ", "ӹ", "Ӻ", "ӻ", "Ӽ", "ӽ", "Ӿ", "ӿ", "ր", "ց", "ւ", "փ",
     "ք", "օ", "ֆ", "և", "ֈ", "Ⴀ", "Ⴁ", "Ⴂ", "Ⴃ", "Ⴄ", "Ⴅ", "Ⴆ", "Ⴇ", "Ⴈ", "Ⴉ", "Ⴊ",
     "Ⴋ", "Ⴌ", "Ⴍ", "Ⴎ", "Ⴏ", "Ⴐ", "Ⴑ", "Ⴒ", "Ⴓ", "Ⴔ", "Ⴕ", "Ⴖ", "Ⴗ", "Ⴘ", "Ⴙ", "Ⴚ",
     "Ⴛ", "Ⴜ", "Ⴝ", "Ⴞ", "Ⴟ", "Ⴠ", "Ⴡ", "Ⴢ", "Ⴣ", "Ⴤ", "Ⴥ", "Ⴧ", "Ⴭ", "ა", "ბ", "გ",
     "დ", "ე", "ვ", "ზ", "თ", "ი", "კ", "ლ", "მ", "ნ", "ო", "პ", "ჟ", "რ", "ს", "ტ",
     "უ", "ფ", "ქ", "ღ", "ყ", "შ", "ჩ", "ც", "ძ", "წ", "ჭ", "ხ", "ჯ", "ჰ", "ჱ", "ჲ",
     "ჳ", "ჴ", "ჵ", "ჶ", "ჷ", "ჸ", "ჹ", "ჺ", "ჽ", "ჾ", "ჿ", "Ꭰ", "Ꭱ", "Ꭲ", "Ꭳ", "Ꭴ",
     "Ꭵ", "Ꭶ", "Ꭷ", "Ꭸ", "Ꭹ", "Ꭺ", "Ꭻ", "Ꭼ", "Ꭽ", "Ꭾ", "Ꭿ", "Ꮀ", "Ꮁ", "Ꮂ", "Ꮃ", "Ꮄ",
     "Ꮅ", "Ꮆ", "Ꮇ", "Ꮈ", "Ꮉ", "Ꮊ", "Ꮋ", "Ꮌ", "Ꮍ", "Ꮎ", "Ꮏ", "Ꮐ", "Ꮑ", "Ꮒ", "Ꮓ", "Ꮔ",
     "Ꮕ", "Ꮖ", "Ꮗ", "Ꮘ", "Ꮙ", "Ꮚ", "Ꮛ", "Ꮜ", "Ꮝ", "Ꮞ", "Ꮟ", "Ꮠ", "Ꮡ", "Ꮢ", "Ꮣ", "Ꮤ",
     "Ꮥ", "Ꮦ", "Ꮧ", "Ꮨ", "Ꮩ", "Ꮪ", "Ꮫ", "Ꮬ", "Ꮭ", "Ꮮ", "Ꮯ", "Ꮰ", "Ꮱ", "Ꮲ", "Ꮳ", "Ꮴ",
     "Ꮵ", "Ꮶ", "Ꮷ", "Ꮸ", "Ꮹ", "Ꮺ", "Ꮻ", "Ꮼ", "Ꮽ", "Ꮾ", "Ꮿ", "Ᏸ", "Ᏹ", "Ᏺ", "Ᏻ", "Ᏼ",
     "Ᏽ", "ᏸ", "ᏹ", "ᏺ", "ᏻ", "ᏼ", "ᏽ", "ᲀ", "ᲁ", "ᲂ", "ᲃ", "ᲄ", "ᲅ", "ᲆ", "ᲇ", "ᲈ",
     "Ა", "Ბ", "Გ", "Დ", "Ე", "Ვ", "Ზ", "Თ", "Ი", "Კ", "Ლ", "Მ", "Ნ", "Ო", "Პ", "Ჟ",
     "Რ", "Ს", "Ტ", "Უ", "Ფ", "Ქ", "Ღ", "Ყ", "Შ", "Ჩ", "Ც", "Ძ", "Წ", "Ჭ", "Ხ", "Ჯ",
     "Ჰ", "Ჱ", "Ჲ", "Ჳ", "Ჴ", "Ჵ", "Ჶ", "Ჷ", "Ჸ", "Ჹ", "Ჺ", "Ჽ", "Ჾ", "Ჿ", "ᶀ", "ᶁ",
     "ᶂ", "ᶃ", "ᶄ", "ᶅ", "ᶆ", "ᶇ", "ᶈ", "ᶉ", "ᶊ", "ᶋ", "ᶌ", "ᶍ", "ᶎ", "ᶏ", "ᶐ", "ᶑ",
     "ᶒ", "ᶓ", "ᶔ", "ᶕ", "ᶖ", "ᶗ", "ᶘ", "ᶙ", "ᶚ", "Ẁ", "ẁ", "Ẃ", "ẃ", "Ẅ", "ẅ", "Ẇ",
     "ẇ", "Ẉ", "ẉ", "Ẋ", "ẋ", "Ẍ", "ẍ", "Ẏ", "ẏ", "Ẑ", "ẑ", "Ẓ", "ẓ", "Ẕ", "ẕ", "ẖ",
     "ẗ", "ẘ", "ẙ", "ẚ", "ẛ", "ẜ", "ẝ", "ẞ", "ẟ", "Ạ", "ạ", "Ả", "ả", "Ấ", "ấ", "Ầ",
     "ầ", "Ẩ", "ẩ", "Ẫ", "ẫ", "Ậ", "ậ", "Ắ", "ắ", "Ằ", "ằ", "Ẳ", "ẳ", "Ẵ", "ẵ", "Ặ",
     "ặ", "Ẹ", "ẹ", "Ẻ", "ẻ", "Ẽ", "ẽ", "Ế", "ế", "Ề", "ề", "Ể", "ể", "Ễ", "ễ", "Ệ",
     "ệ", "Ỉ", "ỉ", "Ị", "ị", "Ọ", "ọ", "Ỏ", "ỏ", "Ố", "ố", "Ồ", "ồ", "Ổ", "ổ", "Ỗ",
     "ỗ", "Ộ", "ộ", "Ớ", "ớ", "Ờ", "ờ", "Ở", "ở", "Ỡ", "ỡ", "Ợ", "ợ", "Ụ", "ụ", "Ủ",
     "ủ", "Ứ", "ứ", "Ừ", "ừ", "Ử", "ử", "Ữ", "ữ", "Ự", "ự", "Ỳ", "ỳ", "Ỵ", "ỵ", "Ỷ",
     "ỷ", "Ỹ", "ỹ", "Ỻ", "ỻ", "Ỽ", "ỽ", "Ỿ", "ỿ", "ᾀ", "ᾁ", "ᾂ", "ᾃ", "ᾄ", "ᾅ", "ᾆ",
     "ᾇ", "ᾈ", "ᾉ", "ᾊ", "ᾋ", "ᾌ", "ᾍ", "ᾎ", "ᾏ", "ᾐ", "ᾑ", "ᾒ", "ᾓ", "ᾔ", "ᾕ", "ᾖ",
     "ᾗ", "ᾘ", "ᾙ", "ᾚ", "ᾛ", "ᾜ", "ᾝ", "ᾞ", "ᾟ", "ᾠ", "ᾡ", "ᾢ", "ᾣ", "ᾤ", "ᾥ", "ᾦ",
     "ᾧ", "ᾨ", "ᾩ", "ᾪ", "ᾫ", "ᾬ", "ᾭ", "ᾮ", "ᾯ", "ᾰ", "ᾱ", "ᾲ", "ᾳ", "ᾴ", "ᾶ", "ᾷ",
     "Ᾰ", "Ᾱ", "Ὰ", "Ά", "ᾼ", "ι", "ῂ", "ῃ", "ῄ", "ῆ", "ῇ", "Ὲ", "Έ", "Ὴ", "Ή", "ῌ",
     "ῐ", "ῑ", "ῒ", "ΐ", "ῖ", "ῗ", "Ῐ", "Ῑ", "Ὶ", "Ί", "ῠ", "ῡ", "ῢ", "ΰ", "ῤ", "ῥ",
     "ῦ", "ῧ", "Ῠ", "Ῡ", "Ὺ", "Ύ", "Ῥ", "ῲ", "ῳ", "ῴ", "ῶ", "ῷ", "Ὸ", "Ό", "Ὼ", "Ώ",
     "ῼ", "Ↄ", "ↄ", "Ⓐ", "Ⓑ", "Ⓒ", "Ⓓ", "Ⓔ", "Ⓕ", "Ⓖ", "Ⓗ", "Ⓘ", "Ⓙ", "Ⓚ", "Ⓛ", "Ⓜ",
     "Ⓝ", "Ⓞ", "Ⓟ", "Ⓠ", "Ⓡ", "Ⓢ", "Ⓣ", "Ⓤ", "Ⓥ", "Ⓦ", "Ⓧ", "Ⓨ", "Ⓩ", "ⓐ", "ⓑ", "ⓒ",
     "ⓓ", "ⓔ", "ⓕ", "ⓖ", "ⓗ", "ⓘ", "ⓙ", "ⓚ", "ⓛ", "ⓜ", "ⓝ", "ⓞ", "ⓟ", "ⓠ", "ⓡ", "ⓢ",
     "ⓣ", "ⓤ", "ⓥ", "ⓦ", "ⓧ", "ⓨ", "ⓩ", "Ⲁ", "ⲁ", "Ⲃ", "ⲃ", "Ⲅ", "ⲅ", "Ⲇ", "ⲇ", "Ⲉ",
     "ⲉ", "Ⲋ", "ⲋ", "Ⲍ", "ⲍ", "Ⲏ", "ⲏ", "Ⲑ", "ⲑ", "Ⲓ", "ⲓ", "Ⲕ", "ⲕ", "Ⲗ", "ⲗ", "Ⲙ",
     "ⲙ", "Ⲛ", "ⲛ", "Ⲝ", "ⲝ", "Ⲟ", "ⲟ", "Ⲡ", "ⲡ", "Ⲣ", "ⲣ", "Ⲥ", "ⲥ", "Ⲧ", "ⲧ", "Ⲩ",
     "ⲩ", "Ⲫ", "ⲫ", "Ⲭ", "ⲭ", "Ⲯ", "ⲯ", "Ⲱ", "ⲱ", "Ⲳ", "ⲳ", "Ⲵ", "ⲵ", "Ⲷ", "ⲷ", "Ⲹ",
     "ⲹ", "Ⲻ", "ⲻ", "Ⲽ", "ⲽ", "Ⲿ", "ⲿ", "Ⳁ", "ⳁ", "Ⳃ", "ⳃ", "Ⳅ", "ⳅ", "Ⳇ", "ⳇ", "Ⳉ",
     "ⳉ", "Ⳋ", "ⳋ", "Ⳍ", "ⳍ", "Ⳏ", "ⳏ", "Ⳑ", "ⳑ", "Ⳓ", "ⳓ", "Ⳕ", "ⳕ", "Ⳗ", "ⳗ", "Ⳙ",
     "ⳙ", "Ⳛ", "ⳛ", "Ⳝ", "ⳝ", "Ⳟ", "ⳟ", "Ⳡ", "ⳡ", "Ⳣ", "ⳣ", "ⳤ", "Ⳬ", "ⳬ", "Ⳮ", "ⳮ",
     "Ⳳ", "ⳳ", "Ꚁ", "ꚁ", "Ꚃ", "ꚃ", "Ꚅ", "ꚅ", "Ꚇ", "ꚇ", "Ꚉ", "ꚉ", "Ꚋ", "ꚋ", "Ꚍ", "ꚍ",
     "Ꚏ", "ꚏ", "Ꚑ", "ꚑ", "Ꚓ", "ꚓ", "Ꚕ", "ꚕ", "Ꚗ", "ꚗ", "Ꚙ", "ꚙ", "Ꚛ", "ꚛ", "Ꞁ", "ꞁ",
     "Ꞃ", "ꞃ", "Ꞅ", "ꞅ", "Ꞇ", "ꞇ", "Ꞌ", "ꞌ", "Ɥ", "ꞎ", "Ꞑ", "ꞑ", "Ꞓ", "ꞓ", "ꞔ", "ꞕ",
     "Ꞗ", "ꞗ", "Ꞙ", "ꞙ", "Ꞛ", "ꞛ", "Ꞝ", "ꞝ", "Ꞟ", "ꞟ", "Ꞡ", "ꞡ", "Ꞣ", "ꞣ", "Ꞥ", "ꞥ",
     "Ꞧ", "ꞧ", "Ꞩ", "ꞩ", "Ɦ", "Ɜ", "Ɡ", "Ɬ", "Ɪ", "ꞯ", "Ʞ", "Ʇ", "Ʝ", "Ꭓ", "Ꞵ", "ꞵ",
     "Ꞷ", "ꞷ", "Ꞹ", "ꞹ", "Ꞻ", "ꞻ", "Ꞽ", "ꞽ", "Ꞿ", "ꞿ", "Ꟁ", "ꟁ", "Ꟃ", "ꟃ", "Ꞔ", "Ʂ",
     "Ᶎ", "Ꟈ", "ꟈ", "Ꟊ", "ꟊ", "Ꟑ", "ꟑ", "ꟓ", "ꟕ", "Ꟗ", "ꟗ", "Ꟙ", "ꟙ", "Ꟶ", "ꟶ", "ꟺ",
     "ꮀ", "ꮁ", "ꮂ", "ꮃ", "ꮄ", "ꮅ", "ꮆ", "ꮇ", "ꮈ", "ꮉ", "ꮊ", "ꮋ", "ꮌ", "ꮍ", "ꮎ", "ꮏ",
     "ꮐ", "ꮑ", "ꮒ", "ꮓ", "ꮔ", "ꮕ", "ꮖ", "ꮗ", "ꮘ", "ꮙ", "ꮚ", "ꮛ", "ꮜ", "ꮝ", "ꮞ", "ꮟ",
     "ꮠ", "ꮡ", "ꮢ", "ꮣ", "ꮤ", "ꮥ", "ꮦ", "ꮧ", "ꮨ", "ꮩ", "ꮪ", "ꮫ", "ꮬ", "ꮭ", "ꮮ", "ꮯ",
     "ꮰ", "ꮱ", "ꮲ", "ꮳ", "ꮴ", "ꮵ", "ꮶ", "ꮷ", "ꮸ", "ꮹ", "ꮺ", "ꮻ", "ꮼ", "ꮽ", "ꮾ", "ꮿ"}

\* The case-ignorable characters.
CaseIgnorable ==
    {"'", ".", ":", "^", "¨", "­", "¯", "´", "·", "¸", "ʰ", "ʱ", "ʲ", "ʳ", "ʴ", "ʵ",
     "ʶ", "ʷ", "ʸ", "ʹ", "ʺ", "ʻ", "ʼ", "ʽ", "ʾ", "ʿ", "ˀ", "ˁ", "˂", "˃", "˄", "˅",
     "ˆ", "ˇ", "ˈ", "ˉ", "ˊ", "ˋ", "ˌ", "ˍ", "ˎ", "ˏ", "ː", "ˑ", "˒", "˓", "˔", "˕",
     "˖", "˗", "˘", "˙", "˚", "˛", "˜", "˝", "˞", "˟", "ˠ", "ˡ", "ˢ", "ˣ", "ˤ", "˥",
     "˦", "˧", "˨", "˩", "˪", "˫", "ˬ", "˭", "ˮ", "˯", "˰", "˱", "˲", "˳", "˴", "˵",
     "˶", "˷", "˸", "˹", "˺", "˻", "˼", "˽", "˾", "˿", "΄", "΅", "·", "҃", "҄", "҅",
     "҆", "҇", "҈", "҉", "֑", "֒", "֓", "֔", "֕", "֖", "֗", "֘", "֙", "֚", "֛", "֜",
     "֝", "֞", "֟", "֠", "֡", "֢", "֣", "֤", "֥", "֦", "֧", "֨", "֩", "֪", "֫", "֬",
     "֭", "֮", "֯", "ְ", "ֱ", "ֲ", "ֳ", "ִ", "ֵ", "ֶ", "ַ", "ָ", "ֹ", "ֺ", "ֻ", "ּ",
     "ֽ", "ֿ", "ׁ", "ׂ", "ׄ", "ׅ", "ׇ", "״", "ۖ", "ۗ", "ۘ", "ۙ", "ۚ", "ۛ", "ۜ", "۝",
     "۟", "۠", "ۡ", "ۢ", "ۣ", "ۤ", "ۥ", "ۦ", "ۧ", "ۨ", "۪", "۫", "۬", "ۭ", "ަ", "ާ",
     "ި", "ީ", "ު", "ޫ", "ެ", "ޭ", "ޮ", "ޯ", "ް", "߫", "߬", "߭", "߮", "߯", "߰", "߱",
     "߲", "߳", "ߴ", "ߵ", "ߺ", "߽", "࢈", "࢐", "࢑", "࢘", "࢙", "࢚", "࢛", "࢜", "࢝", "࢞",
     "࢟", "ࣉ", "࣊", "࣋", "࣌", "࣍", "࣎", "࣏", "࣐", "࣑", "࣒", "࣓", "ࣔ", "ࣕ", "ࣖ", "ࣗ",
     "ࣘ", "ࣙ", "ࣚ", "ࣛ", "ࣜ", "ࣝ", "ࣞ", "ࣟ", "࣠", "࣡", "࣢", "ࣣ", "ࣤ", "ࣥ", "ࣦ", "ࣧ",
     "ࣨ", "ࣩ", "࣪", "࣫", "࣬", "࣭", "࣮", "࣯", "ࣰ", "ࣱ", "ࣲ", "ࣳ", "ࣴ", "ࣵ", "ࣶ", "ࣷ",
     "ࣸ", "ࣹ", "ࣺ", "ࣻ", "ࣼ", "ࣽ", "ࣾ", "ࣿ", "ঁ", "়", "ু", "ূ", "ৃ", "ৄ", "্", "ৢ",
     "ৣ", "৾", "ઁ", "ં", "઼", "ુ", "ૂ", "ૃ", "ૄ", "ૅ", "ે", "ૈ", "્", "ૢ", "ૣ", "ૺ",
     "ૻ", "ૼ", "૽", "૾", "૿", "ஂ", "ீ", "்", "ಁ", "಼", "ಿ", "ೆ", "ೌ", "್", "ೢ", "ೣ",
     "ඁ", "්", "ි", "ී", "ු", "ූ", "ັ", "ິ", "ີ", "ຶ", "ື", "ຸ", "ູ", "຺", "ົ", "ຼ",
     "ໆ", "່", "້", "໊", "໋", "໌", "ໍ", "ྀ", "ཱྀ", "ྂ", "ྃ", "྄", "྆", "྇", "ྍ", "ྎ",
     "ྏ", "ྐ", "ྑ", "ྒ", "ྒྷ", "ྔ", "ྕ", "ྖ", "ྗ", "ྙ", "ྚ", "ྛ", "ྜ", "ྜྷ", "ྞ", "ྟ",
     "ྠ", "ྡ", "ྡྷ", "ྣ", "ྤ", "ྥ", "ྦ", "ྦྷ", "ྨ", "ྩ", "ྪ", "ྫ", "ྫྷ", "ྭ", "ྮ", "ྯ",
     "ྰ", "ྱ", "ྲ", "ླ", "ྴ", "ྵ", "ྶ", "ྷ", "ྸ", "ྐྵ", "ྺ", "ྻ", "ྼ", "࿆", "ႂ", "ႅ",
     "ႆ", "ႍ", "ႝ", "ჼ", "឴", "឵", "ិ", "ី", "ឹ", "ឺ", "ុ", "ូ", "ួ", "ំ", "៉", "៊",
     "់", "៌", "៍", "៎", "៏", "័", "៑", "្", "៓", "ៗ", "៝", "ᢅ", "ᢆ", "ᢩ", "ᪧ", "᪰",
     "᪱", "᪲", "᪳", "᪴", "᪵", "᪶", "᪷", "᪸", "᪹", "᪺", "᪻", "᪼", "᪽", "᪾", "ᪿ", "ᫀ",
     "᫁", "᫂", "᫃", "᫄", "᫅", "᫆", "᫇", "᫈", "᫉", "᫊", "᫋", "ᫌ", "ᫍ", "ᫎ", "ᮀ", "ᮁ",
     "ᮢ", "ᮣ", "ᮤ", "ᮥ", "ᮨ", "ᮩ", "᮫", "ᮬ", "ᮭ", "᯦", "ᯨ", "ᯩ", "ᯭ", "ᯯ", "ᯰ", "ᯱ",
     "᳐", "᳑", "᳒", "᳔", "᳕", "᳖", "᳗", "᳘", "᳙", "᳚", "᳛", "᳜", "᳝", "᳞", "᳟", "᳠",
     "᳢", "᳣", "᳤", "᳥", "᳦", "᳧", "᳨", "᳭", "᳴", "᳸", "᳹", "ᶛ", "ᶜ", "ᶝ", "ᶞ", "ᶟ",
     "ᶠ", "ᶡ", "ᶢ", "ᶣ", "ᶤ", "ᶥ", "ᶦ", "ᶧ", "ᶨ", "ᶩ", "ᶪ", "ᶫ", "ᶬ", "ᶭ", "ᶮ", "ᶯ",
     "ᶰ", "ᶱ", "ᶲ", "ᶳ", "ᶴ", "ᶵ", "ᶶ", "ᶷ", "ᶸ", "ᶹ", "ᶺ", "ᶻ", "ᶼ", "ᶽ", "ᶾ", "ᶿ",
     "᷀", "᷁", "᷂", "᷃", "᷄", "᷅", "᷆", "᷇", "᷈", "᷉", "᷊", "᷋", "᷌", "᷍", "᷎", "᷏",
     "᷐", "᷑", "᷒", "ᷓ", "ᷔ", "ᷕ", "ᷖ", "ᷗ", "ᷘ", "ᷙ", "ᷚ", "ᷛ", "ᷜ", "ᷝ", "ᷞ", "ᷟ",
     "ᷠ", "ᷡ", "ᷢ", "ᷣ", "ᷤ", "ᷥ", "ᷦ", "ᷧ", "ᷨ", "ᷩ", "ᷪ", "ᷫ", "ᷬ", "ᷭ", "ᷮ", "ᷯ",
     "ᷰ", "ᷱ", "ᷲ", "ᷳ", "ᷴ", "᷵", "᷶", "᷷", "᷸", "᷹", "᷺", "᷻", "᷼", "᷽", "᷾", "᷿",
     "᾽", "᾿", "῀", "῁", "῍", "῎", "῏", "῝", "῞", "῟", "῭", "΅", "`", "´", "῾", "ₐ",
     "ₑ", "ₒ", "ₓ", "ₔ", "ₕ", "ₖ", "ₗ", "ₘ", "ₙ", "ₚ", "ₛ", "ₜ", "⃐", "⃑", "⃒", "⃓",
     "⃔", "⃕", "⃖", "⃗", "⃘", "⃙", "⃚", "⃛", "⃜", "⃝", "⃞", "⃟", "⃠", "⃡", "⃢", "⃣",
     "⃤", "⃥", "⃦", "⃧", "⃨", "⃩", "⃪", "⃫", "⃬", "⃭", "⃮", "⃯", "⃰", "⳯", "⳰", "⳱",
     "ⷠ", "ⷡ", "ⷢ", "ⷣ", "ⷤ", "ⷥ", "ⷦ", "ⷧ", "ⷨ", "ⷩ", "ⷪ", "ⷫ", "ⷬ", "ⷭ", "ⷮ", "ⷯ",
     "ⷰ", "ⷱ", "ⷲ", "ⷳ", "ⷴ", "ⷵ", "ⷶ", "ⷷ", "ⷸ", "ⷹ", "ⷺ", "ⷻ", "ⷼ", "ⷽ", "ⷾ", "ⷿ",
     "゙", "゚", "゛", "゜", "ゝ", "ゞ", "ー", "ヽ", "ヾ", "ꓸ", "ꓹ", "ꓺ", "ꓻ", "ꓼ", "ꓽ", "ꚜ",
     "ꚝ", "ꚞ", "ꚟ", "꛰", "꛱", "ꞈ", "꞉", "꞊", "ꟲ", "ꟳ", "ꟴ", "ꟸ", "ꟹ", "꣄", "ꣅ", "꣠",
     "꣡", "꣢", "꣣", "꣤", "꣥", "꣦", "꣧", "꣨", "꣩", "꣪", "꣫", "꣬", "꣭", "꣮", "꣯", "꣰",
     "꣱", "ꣿ", "ꦀ", "ꦁ", "ꦂ", "꦳", "ꦶ", "ꦷ", "ꦸ", "ꦹ", "ꦼ", "ꦽ", "ꧏ", "ꧥ", "ꧦ", "ꪰ",
     "ꪲ", "ꪳ", "ꪴ", "ꪷ", "ꪸ", "ꪾ", "꪿", "꫁", "ꫝ", "ꫬ", "ꫭ", "ꫳ", "ꫴ", "꫶", "ꯥ", "ꯨ",
     "꯭", "﮲", "﮳", "﮴", "﮵", "﮶", "﮷", "﮸", "﮹", "﮺", "﮻", "﮼", "﮽", "﮾", "﮿", "﯀",
     "﯁", "﯂", "﻿", "ﾞ", "ﾟ", "￣", "￹", "￺", "￻"}

\* str.lower() on one character, by itself.
LowerChar(c) ==
    IF c \in DOMAIN LowerMap \/ c \in LowerOutOfReach THEN LowerMap[c] ELSE c

\* The capital sigma at s[i] is final: a cased character comes before it,
\* case-ignorable characters aside, and none comes after it.
FinalSigma(s, i) ==
    LET before == {j \in 1..(i - 1) : SubSeq(s, j, j) \notin CaseIgnorable}
        after == {j \in (i + 1)..Len(s) : SubSeq(s, j, j) \notin CaseIgnorable}
        last == CHOOSE j \in before : \A k \in before : k <= j
        next == CHOOSE j \in after : \A k \in after : j <= k
    IN  /\ before # {}
        /\ SubSeq(s, last, last) \in Cased
        /\ after # {} => SubSeq(s, next, next) \notin Cased

\* The lower case of s[i] where it stands.
LowerAt(s, i) ==
    LET c == SubSeq(s, i, i) IN
    IF c = "Σ" THEN (IF FinalSigma(s, i) THEN "ς" ELSE "σ") ELSE LowerChar(c)

\* str.lower() on s[i..j], one half after the other.
RECURSIVE LowerRange(_, _, _)
LowerRange(s, i, j) ==
    IF i > j THEN ""
    ELSE IF i = j THEN LowerAt(s, i)
    ELSE LET mid == (i + j) \div 2
         IN  LowerRange(s, i, mid) \o LowerRange(s, mid + 1, j)

\* str.lower()
Lower(s) == LowerRange(s, 1, Len(s))

\* Python's `t in s` for strings: t occurs in s as a contiguous substring.
Contains(s, t) ==
    \E i \in 0..(Len(s) - Len(t)) : SubSeq(s, i + 1, i + Len(t)) = t

----------------------------------------------------------------------------
(* Optional attributes of an exception object.                             *)
(* tag "absent": the object has no such attribute (hasattr is False);      *)
(* tag "none": the attribute is None; tag "val": it is the number v.       *)

Absent == [tag |-> "absent", v |-> 0]
None == [tag |-> "none", v |-> 0]
Val(n) == [tag |-> "val", v |-> n]

\* hasattr(e, name)
HasAttr(a) == a.tag # "absent"
\* Python truthiness of an attribute value read with getattr(e, name, None)
Truthy(a) == a.tag = "val" /\ a.v # 0
\* getattr(e, name, None)
GetAttr(a) == IF a.tag = "absent" THEN None ELSE a

\* `x or y`
PyOr(x, y) == IF Truthy(x) THEN x ELSE y

\* f"{x}" of an optional number
Fmt(a) == IF a.tag = "val" THEN ToString(a.v) ELSE "None"

----------------------------------------------------------------------------
(* Error taxonomy (exceptions.py).  An exception object is a record:       *)
(* kind is its class, msg is str(e), the rest are its attributes.          *)

Exc(kind, msg, retry_after, status_code, http_status) ==
    [kind |-> kind, msg |-> msg, retry_after |-> retry_after,
     status_code |-> status_code, http_status |-> http_status,
     operation |-> "", attempts |-> 0]

NoExc == Exc("", "", Absent, Absent, Absent)

\* A failure the program did not define: ValueError("..."), Exception("...").
PlainError(kind, msg) == Exc(kind, msg, Absent, Absent, Absent)

ConfigurationError(msg) == Exc("ConfigurationError", msg, Absent, Absent, Absent)

AuthenticationError(service) ==
    Exc("AuthenticationError", "Authentication failed for " \o service,
        Absent, Absent, Absent)

RateLimitError(service, retry_after) ==
    Exc("RateLimitError",
        "Rate limit exceeded for " \o service \o
            (IF Truthy(retry_after)
             THEN ". Retry after " \o Fmt(retry_after) \o " seconds" ELSE ""),
        retry_after, Absent, Absent)

NetworkError(msg) == Exc("NetworkError", msg, Absent, Absent, Absent)

APIError(service, message, status_code) ==
    Exc("APIError", service \o " API error: " \o message, Absent, status_code, Absent)

MaxRetriesExceededError(operation, attempts) ==
    [Exc("MaxRetriesExceededError",
         "Maximum retry attempts (" \o ToString(attempts) \o
             ") exceeded for operation: " \o operation,
         Absent, Absent, Absent)
     EXCEPT !.operation = operation, !.attempts = attempts]

\* The classes named in a class statement's parentheses: the taxonomy of
\* exceptions.py and Python's built-in exceptions.  A class that is not
\* listed (SpotifyException, AttributeError, ValueError, any class of a
\* library) derives from Exception.
Parents(kind) ==
    CASE kind = "BaseException" -> {}
      [] kind \in {"Exception", "KeyboardInterrupt", "SystemExit", "GeneratorExit",
                   "BaseExceptionGroup"} -> {"BaseException"}
      [] kind = "ExceptionGroup" -> {"BaseExceptionGroup", "Exception"}
      [] kind \in {"ConfigurationError", "AuthenticationError", "RateLimitError",
                   "NetworkError", "TrackNotFoundError", "PlaylistNotFoundError",
                   "APIError", "MaxRetriesExceededError"} -> {"SpotifyToYTMusicError"}
      [] kind \in {"ConnectionError", "TimeoutError", "FileNotFoundError",
                   "FileExistsError", "PermissionError", "InterruptedError",
                   "IsADirectoryError", "NotADirectoryError", "BlockingIOError",
                   "ChildProcessError", "ProcessLookupError"} -> {"OSError"}
      [] kind \in {"BrokenPipeError", "ConnectionAbortedError",
                   "ConnectionRefusedError", "ConnectionResetError"} -> {"ConnectionError"}
      [] kind \in {"KeyError", "IndexError"} -> {"LookupError"}
      [] kind \in {"ZeroDivisionError", "OverflowError", "FloatingPointError"} ->
            {"ArithmeticError"}
      [] kind \in {"UnicodeError", "JSONDecodeError"} -> {"ValueError"}
      [] kind \in {"UnicodeDecodeError", "UnicodeEncodeError",
                   "UnicodeTranslateError"} -> {"UnicodeError"}
      [] kind \in {"NotImplementedError", "RecursionError"} -> {"RuntimeError"}
      [] kind = "ModuleNotFoundError" -> {"ImportError"}
      [] kind = "UnboundLocalError" -> {"NameError"}
      [] kind = "IndentationError" -> {"SyntaxError"}
      [] kind = "TabError" -> {"IndentationError"}
      [] kind \in {"BytesWarning", "DeprecationWarning", "EncodingWarning",
                   "FutureWarning", "ImportWarning", "PendingDeprecationWarning",
                   "ResourceWarning", "RuntimeWarning", "SyntaxWarning",
                   "UnicodeWarning", "UserWarning"} -> {"Warning"}
      [] OTHER -> {"Exception"}

\* A class with every class it derives from.
RECURSIVE Ancestors(_)
Ancestors(kind) == {kind} \cup UNION {Ancestors(parent) : parent \in Parents(kind)}

\* The hierarchy with MaxRetriesExceededError declared under APIError.
BasesExhaustionUnderAPI(kind) ==
    IF kind = "MaxRetriesExceededError"
    THEN {kind} \cup Ancestors("APIError")
    ELSE Ancestors(kind)

\* The classes a class derives from, itself included.
Bases(kind) == Ancestors(kind)

\* isinstance(e, classes): what `except classes as e` tests.
IsInstance(e, classes) == Bases(e.kind) \cap classes # {}

----------------------------------------------------------------------------
(* Error categorizer (utils/retry.py). *)

RateLimitIndicators ==
    {"rate limit", "too many requests", "429", "quota exceeded", "throttle"}

NetworkIndicators ==
    {"connection", "timeout", "network", "dns", "unreachable", "socket"}

is_rate_limit_error(error) ==
    LET error_str == Lower(error.msg) IN
    \E indicator \in RateLimitIndicators : Contains(error_str, indicator)

is_network_error(error) ==
    LET error_str == Lower(error.msg) IN
    \E indicator \in NetworkIndicators : Contains(error_str, indicator)

\* A variant that tests for a network error first.
categorize_network_first(error, service) ==
    IF is_network_error(error)
    THEN NetworkError(service \o ": " \o error.msg)
    ELSE IF is_rate_limit_error(error)
    THEN RateLimitError(service,
                        IF HasAttr(error.retry_after) THEN error.retry_after ELSE None)
    ELSE APIError(service, error.msg,
                  PyOr(GetAttr(error.status_code), GetAttr(error.http_status)))

\* A variant without the default: an unmatched error is handed back as it came.
categorize_no_default(error, service) ==
    IF is_rate_limit_error(error)
    THEN RateLimitError(service,
                        IF HasAttr(error.retry_after) THEN error.retry_after ELSE None)
    ELSE IF is_network_error(error)
    THEN NetworkError(service \o ": " \o error.msg)
    ELSE error

\* A variant that never looks for the hint of a rate-limited failure.
categorize_without_hint(error, service) ==
    IF is_rate_limit_error(error)
    THEN RateLimitError(service, None)
    ELSE IF is_network_error(error)
    THEN NetworkError(service \o ": " \o error.msg)
    ELSE APIError(service, error.msg,
                  PyOr(GetAttr(error.status_code), GetAttr(error.http_status)))

\* A variant whose network error keeps the service label and drops the
\* original text.
categorize_label_only(error, service) ==
    IF is_rate_limit_error(error)
    THEN RateLimitError(service,
                        IF HasAttr(error.retry_after) THEN error.retry_after ELSE None)
    ELSE IF is_network_error(error)
    THEN NetworkError(service)
    ELSE APIError(service, error.msg,
                  PyOr(GetAttr(error.status_code), GetAttr(error.http_status)))

categorize_api_error(error, service) ==
    IF is_rate_limit_error(error)
    THEN RateLimitError(service,
                        IF HasAttr(error.retry_after) THEN error.retry_after ELSE None)
    ELSE IF is_network_error(error)
    THEN NetworkError(service \o ": " \o error.msg)
    ELSE APIError(service, error.msg,
                  PyOr(GetAttr(error.status_code), GetAttr(error.http_status)))

----------------------------------------------------------------------------
(* Retry wrapper (utils/retry.py, retry_with_backoff).                     *)
(* A policy p is the decorator's arguments plus func.__name__.  The        *)
(* wrapper's locals are the record st; one step is one invocation of the   *)
(* wrapped function together with everything the wrapper does with its     *)
(* outcome o = [ok, value, exc] (return, raise, or sleep and go round).    *)

Policy(name, max_attempts, initial_delay, max_delay, base, exceptions, rl_exceptions) ==
    [name |-> name, max_attempts |-> max_attempts, initial_delay |-> initial_delay,
     max_delay |-> max_delay, exponential_base |-> base,
     exceptions |-> exceptions, rate_limit_exceptions |-> rl_exceptions]

DefaultMaxAttempts == 3
DefaultInitialDelay == 1
DefaultMaxDelay == 60
DefaultExponentialBase == 2
DefaultExceptions == {"Exception"}
DefaultRateLimitExceptions == {"RateLimitError"}

Returns(value) == [ok |-> TRUE, value |-> value, exc |-> NoExc]
Raises(exc) == [ok |-> FALSE, value |-> "", exc |-> exc]

\* attempt = 0; delay = initial_delay
WrapperStart(p) ==
    [attempt |-> 0, delay |-> p.initial_delay, calls |-> 0, waits |-> <<>>,
     status |-> "running", value |-> "", exc |-> NoExc, cause |-> NoExc]

\* while attempt < max_attempts
LoopGuard(p, st) == st.attempt < p.max_attempts

\* A variant that gives up one failure late (> for >=).
ExhaustedLate(p, attempt) == attempt > p.max_attempts

\* if attempt >= max_attempts (after attempt += 1)
Exhausted(p, attempt) == attempt >= p.max_attempts

\* A variant that caps the hint at max_delay like any other wait.
RateLimitWaitCapped(p, st, e) ==
    IF HasAttr(e.retry_after) /\ Truthy(e.retry_after)
    THEN Min(e.retry_after.v, p.max_delay)
    ELSE Min(st.delay, p.max_delay)

\* The wait of the rate-limit handler.
RateLimitWait(p, st, e) ==
    IF HasAttr(e.retry_after) /\ Truthy(e.retry_after)
    THEN e.retry_after.v
    ELSE Min(st.delay, p.max_delay)

\* The wait of the general handler.
BackoffWait(p, st, e) == Min(st.delay, p.max_delay)

\* A variant that grows the delay by addition.
NextDelayAdditive(p, st) == st.delay + p.exponential_base

\* delay *= exponential_base
NextDelay(p, st) == st.delay * p.exponential_base

\* A variant that raises without `from e`: the cause is not chained.
RaiseExhaustedUnchained(p, st, e) ==
    [st EXCEPT !.status = "raised",
               !.exc = MaxRetriesExceededError(p.name, p.max_attempts)]

\* raise MaxRetriesExceededError(func.__name__, max_attempts) from e
RaiseExhausted(p, st, e) ==
    [st EXCEPT !.status = "raised",
               !.exc = MaxRetriesExceededError(p.name, p.max_attempts),
               !.cause = e]

\* time.sleep(wait_time); delay *= exponential_base.  time.sleep refuses a
\* negative length: its ValueError is raised inside the handler and leaves
\* the wrapper.
SleepAndGrow(p, st, wait_time) ==
    IF wait_time < 0
    THEN [st EXCEPT !.status = "raised",
                    !.exc = PlainError("ValueError", "sleep length must be non-negative")]
    ELSE [st EXCEPT !.waits = Append(@, wait_time), !.delay = NextDelay(p, st)]

\* A variant of the handler that never gives up: it waits and tries again.
HandleKeepsRetrying(p, st, e, wait_time) ==
    SleepAndGrow(p, [st EXCEPT !.attempt = @ + 1], wait_time)

\* One handler: attempt += 1, then give up or wait.
Handle(p, st, e, wait_time) ==
    LET counted == [st EXCEPT !.attempt = @ + 1] IN
    IF Exhausted(p, counted.attempt)
    THEN RaiseExhausted(p, counted, e)
    ELSE SleepAndGrow(p, counted, wait_time)

\* except rate_limit_exceptions as e
CaughtAsRateLimit(p, e) == IsInstance(e, p.rate_limit_exceptions)

\* A variant that catches every Exception, whatever the policy names.
CaughtAsRetryableAny(p, e) == IsInstance(e, {"Exception"})

\* except exceptions as e (reached only when the clause above did not match)
CaughtAsRetryable(p, e) == IsInstance(e, p.exceptions)

\* A variant that sleeps after a successful call and decorates the result.
LoopBodySleepsOnSuccess(p, st, o) ==
    LET called == [st EXCEPT !.calls = @ + 1] IN
    IF o.ok
    THEN [called EXCEPT !.status = "returned", !.value = o.value \o "!",
                        !.waits = Append(@, Min(st.delay, p.max_delay))]
    ELSE IF CaughtAsRateLimit(p, o.exc)
    THEN Handle(p, called, o.exc, RateLimitWait(p, called, o.exc))
    ELSE IF CaughtAsRetryable(p, o.exc)
    THEN Handle(p, called, o.exc, BackoffWait(p, called, o.exc))
    ELSE [called EXCEPT !.status = "raised", !.exc = o.exc]

\* The body of the while loop for one outcome of func(*args, **kwargs).
LoopBody(p, st, o) ==
    LET called == [st EXCEPT !.calls = @ + 1] IN
    IF o.ok
    THEN [called EXCEPT !.status = "returned", !.value = o.value]
    ELSE IF CaughtAsRateLimit(p, o.exc)
    THEN Handle(p, called, o.exc, RateLimitWait(p, called, o.exc))
    ELSE IF CaughtAsRetryable(p, o.exc)
    THEN Handle(p, called, o.exc, BackoffWait(p, called, o.exc))
    ELSE [called EXCEPT !.status = "raised", !.exc = o.exc]

\* The statement after the loop: return func(*args, **kwargs)
FinalCall(p, st, o) ==
    LET called == [st EXCEPT !.calls = @ + 1] IN
    IF o.ok
    THEN [called EXCEPT !.status = "returned", !.value = o.value]
    ELSE [called EXCEPT !.status = "raised", !.exc = o.exc]

\* wrapper(*args, **kwargs), one invocation of func at a time.
WrapperStep(p, st, o) ==
    IF LoopGuard(p, st) THEN LoopBody(p, st, o) ELSE FinalCall(p, st, o)

\* No decorated call is in progress.
IdlePolicy == Policy("", 0, 0, 0, 0, {}, {})
IdleWrapper == [WrapperStart(IdlePolicy) EXCEPT !.status = "idle"]

----------------------------------------------------------------------------
(* Track matcher (services/ytmusic_service.py, search_track's body).       *)
(* A track is [name, artists, isrc]; isrc "" stands for a track without    *)
(* identifier (None and "" are both false in `if track.isrc`).  A search   *)
(* result is [videoId, title, artists]: title "" and artists <<>> are what *)
(* result.get gives for a missing key.  The destination's answer to one    *)
(* search is [ok, results, exc].                                           *)

\* The value None where a function returns Optional[str].
NoneStr == "<None>"

\* `if value:` for an Optional[str]
TruthyStr(v) == v # NoneStr /\ v # ""

\* sep.join(items)
RECURSIVE Join(_, _)
Join(sep, items) ==
    IF Len(items) = 0 THEN ""
    ELSE IF Len(items) = 1 THEN items[1]
    ELSE items[1] \o sep \o Join(sep, Tail(items))

\* Track.search_query
search_query(track) == track.name \o " " \o Join(", ", track.artists)

\* " ".join([artist["name"].lower() for artist in result.get("artists", [])])
result_artists(result) ==
    Join(" ", [i \in 1..Len(result.artists) |-> Lower(result.artists[i])])

\* any(artist.lower() in result_artists for artist in track.artists)
ArtistMatches(track, result) ==
    LET joined == result_artists(result) IN
    \E i \in 1..Len(track.artists) : Contains(joined, Lower(track.artists[i]))

\* The title test as an equality of the lower-cased names.
TitleMatchesExact(track, result) == Lower(result.title) = Lower(track.name)

\* The title test with a candidate without title passing for no track.
TitleMatchesNonEmpty(track, result) ==
    LET result_title == Lower(result.title)
        track_name_lower == Lower(track.name)
    IN /\ result_title # ""
       /\ Contains(result_title, track_name_lower) \/ Contains(track_name_lower, result_title)

\* track_name_lower in result_title or result_title in track_name_lower
TitleMatches(track, result) ==
    LET result_title == Lower(result.title)
        track_name_lower == Lower(track.name)
    IN Contains(result_title, track_name_lower) \/ Contains(track_name_lower, result_title)

\* Where a `for result in results: if accepted: return` loop stops, given
\* which results are accepted: at the first accepted one, in list order
\* (0 when the loop runs to the end).
FirstAccepted(accepted) ==
    IF \E i \in 1..Len(accepted) : accepted[i]
    THEN CHOOSE i \in 1..Len(accepted) :
            accepted[i] /\ \A j \in 1..(i - 1) : ~accepted[j]
    ELSE 0

\* The identifier phase's test, had it been the name phase's.
IsrcAcceptsWithTitle(track, result) ==
    TitleMatches(track, result) /\ ArtistMatches(track, result)

\* The acceptance test of the identifier phase.
IsrcAccepts(track, result) == ArtistMatches(track, result)

\* The acceptance test of the name phase.
NameAccepts(track, result) == TitleMatches(track, result) /\ ArtistMatches(track, result)

SearchOk(results) == [ok |-> TRUE, results |-> results, exc |-> NoExc]
SearchFails(exc) == [ok |-> FALSE, results |-> <<>>, exc |-> exc]

\* self.ytmusic.search(query, filter="songs", limit=limit), as logged.
IsrcLimit == 3
NameLimit == 5
SearchCall(query, limit) == [query |-> query, filter |-> "songs", limit |-> limit]

\* A search failure as it leaves search_track's body: categorized in
\* _search_with_error_handling and again in search_track's own handler, both
\* of them `except Exception` clauses.
SearchFailure(exc) ==
    IF IsInstance(exc, {"Exception"})
    THEN categorize_api_error(categorize_api_error(exc, "YouTube Music"), "YouTube Music")
    ELSE exc

\* if track.isrc
HasIsrc(track) == track.isrc # ""

\* The identifier phase with the name phase's last line: the first result
\* when none is validated.
IsrcPhaseFallback(track, answer) ==
    IF ~answer.ok
    THEN [done |-> TRUE, out |-> Raises(SearchFailure(answer.exc))]
    ELSE LET i == FirstAccepted([k \in 1..Len(answer.results) |->
                                    IsrcAccepts(track, answer.results[k])]) IN
         IF i # 0
         THEN [done |-> TRUE, out |-> Returns(answer.results[i].videoId)]
         ELSE IF Len(answer.results) > 0
         THEN [done |-> TRUE, out |-> Returns(answer.results[1].videoId)]
         ELSE [done |-> FALSE, out |-> Returns(NoneStr)]

\* The identifier phase with its failure swallowed: the name phase follows.
IsrcPhaseFallsThrough(track, answer) ==
    IF ~answer.ok
    THEN [done |-> FALSE, out |-> Returns(NoneStr)]
    ELSE LET i == FirstAccepted([k \in 1..Len(answer.results) |->
                                    IsrcAccepts(track, answer.results[k])]) IN
         IF i # 0
         THEN [done |-> TRUE, out |-> Returns(answer.results[i].videoId)]
         ELSE [done |-> FALSE, out |-> Returns(NoneStr)]

\* The identifier phase on the destination's answer: [done, out], done when
\* the body leaves here (a validated match or a failure).
IsrcPhase(track, answer) ==
    IF ~answer.ok
    THEN [done |-> TRUE, out |-> Raises(SearchFailure(answer.exc))]
    ELSE LET i == FirstAccepted([k \in 1..Len(answer.results) |->
                                    IsrcAccepts(track, answer.results[k])]) IN
         IF i # 0
         THEN [done |-> TRUE, out |-> Returns(answer.results[i].videoId)]
         ELSE [done |-> FALSE, out |-> Returns(NoneStr)]

\* The name phase without its last line: no match when nothing is validated.
NamePhaseNoFallback(track, answer) ==
    IF ~answer.ok
    THEN Raises(SearchFailure(answer.exc))
    ELSE LET i == FirstAccepted([k \in 1..Len(answer.results) |->
                                    NameAccepts(track, answer.results[k])]) IN
         IF i # 0 THEN Returns(answer.results[i].videoId) ELSE Returns(NoneStr)

\* The name phase on the destination's answer: always leaves the body.
NamePhase(track, answer) ==
    IF ~answer.ok
    THEN Raises(SearchFailure(answer.exc))
    ELSE IF Len(answer.results) = 0
    THEN Returns(NoneStr)
    ELSE LET i == FirstAccepted([k \in 1..Len(answer.results) |->
                                    NameAccepts(track, answer.results[k])]) IN
         IF i # 0
         THEN Returns(answer.results[i].videoId)
         ELSE Returns(answer.results[1].videoId)

----------------------------------------------------------------------------
(* Playlist migration (services/ytmusic_service.py, migrate_playlist and   *)
(* the three retry-wrapped destination calls it makes).  m is the record   *)
(* of migrate_playlist's locals and of what the destination has been asked *)
(* to do; tracks are referred to by their position in the playlist, and    *)
(* m.youtube_id[k] is the youtube_id field of the k-th track, which starts  *)
(* as the playlist was given.                                               *)

ServiceMaxAttempts == 3
SearchInitialDelay == 1
CreateInitialDelay == 2
AddInitialDelay == 2
ServiceExceptions == {"NetworkError", "RateLimitError", "APIError"}

\* @retry_with_backoff(...) on search_track
SearchPolicy ==
    Policy("search_track", ServiceMaxAttempts, SearchInitialDelay, DefaultMaxDelay,
           DefaultExponentialBase, ServiceExceptions, DefaultRateLimitExceptions)

\* @retry_with_backoff(...) on create_playlist
CreatePolicy ==
    Policy("create_playlist", ServiceMaxAttempts, CreateInitialDelay, DefaultMaxDelay,
           DefaultExponentialBase, ServiceExceptions, DefaultRateLimitExceptions)

\* @retry_with_backoff(...) on add_tracks_to_playlist
AddPolicy ==
    Policy("add_tracks_to_playlist", ServiceMaxAttempts, AddInitialDelay, DefaultMaxDelay,
           DefaultExponentialBase, ServiceExceptions, DefaultRateLimitExceptions)

\* MigrationResult(...)
MigrationResult(source, destination, total, successful, failed, skipped) ==
    [source_name |-> source, destination_name |-> destination, total_tracks |-> total,
     successful_tracks |-> successful, failed_tracks |-> failed,
     skipped_tracks |-> skipped]

\* A Python float (an IEEE 754 double) that is not negative.  Zero is
\* FloatZero; any other is [zero |-> FALSE, exp |-> e, mant |-> m] with m its
\* 53 significant bits, the first of them 1, and the value
\* m[1].m[2]...m[53] (binary) * 2^e.
FloatBits == 53

Zeros(n) == [k \in 1..n |-> 0]

FloatZero == [zero |-> TRUE, exp |-> 0, mant |-> Zeros(FloatBits)]

\* The binary number bits, plus one.
Increment(bits) ==
    LET n == Len(bits) IN
    IF \A k \in 1..n : bits[k] = 1 THEN <<1>> \o Zeros(n)
    ELSE LET z == CHOOSE k \in 1..n :
                      bits[k] = 0 /\ \A j \in (k + 1)..n : bits[j] = 1
         IN  [k \in 1..n |-> IF k < z THEN bits[k] ELSE IF k = z THEN 1 ELSE 0]

\* The double nearest to an exact result, ties to the even mantissa: bits
\* are the result's leading bits from its first 1 on (54 at least, the first
\* worth 2^exp) and more says that something non-zero follows them.
RoundToDouble(bits, more, exp) ==
    LET kept == SubSeq(bits, 1, FloatBits)
        sticky == more \/ \E k \in (FloatBits + 2)..Len(bits) : bits[k] = 1
        up == bits[FloatBits + 1] = 1 /\ (sticky \/ kept[FloatBits] = 1)
        raised == Increment(kept)
    IN  IF ~up THEN [zero |-> FALSE, exp |-> exp, mant |-> kept]
        ELSE IF Len(raised) > FloatBits
        THEN [zero |-> FALSE, exp |-> exp + 1, mant |-> SubSeq(raised, 1, FloatBits)]
        ELSE [zero |-> FALSE, exp |-> exp, mant |-> raised]

\* The first n bits of r / d in binary, for d <= r < 2 * d.
RECURSIVE QuotientBits(_, _, _)
QuotientBits(r, d, n) ==
    IF n = 0 THEN <<>>
    ELSE LET b == IF r >= d THEN 1 ELSE 0
         IN  <<b>> \o QuotientBits(2 * (r - b * d), d, n - 1)

\* What the long division of QuotientBits is left with after n bits.
RECURSIVE RemainderAfter(_, _, _)
RemainderAfter(r, d, n) ==
    IF n = 0 THEN r
    ELSE LET b == IF r >= d THEN 1 ELSE 0
         IN  RemainderAfter(2 * (r - b * d), d, n - 1)

\* The least k with a * 2^k >= b, for a > 0.
RECURSIVE ShiftsUpTo(_, _)
ShiftsUpTo(a, b) == IF a >= b THEN 0 ELSE 1 + ShiftsUpTo(2 * a, b)

\* The greatest k with b * 2^k <= a, for 0 < b <= a.
RECURSIVE ShiftsWithin(_, _)
ShiftsWithin(b, a) == IF 2 * b > a THEN 0 ELSE 1 + ShiftsWithin(2 * b, a)

\* n / d for ints n >= 0 and d > 0: Python's true division gives the double
\* nearest to the quotient.
TrueDiv(n, d) ==
    IF n = 0 THEN FloatZero
    ELSE IF n >= d
    THEN LET k == ShiftsWithin(d, n)
         IN  RoundToDouble(QuotientBits(n, d * 2^k, FloatBits + 1),
                           RemainderAfter(n, d * 2^k, FloatBits + 1) # 0, k)
    ELSE LET k == ShiftsUpTo(n, d)
         IN  RoundToDouble(QuotientBits(n * 2^k, d, FloatBits + 1),
                           RemainderAfter(n * 2^k, d, FloatBits + 1) # 0, 0 - k)

\* a + b for binary numbers of the same length; a carry out of the first
\* place is dropped. A place receives a carry when some lower place makes
\* one and every place between passes it on.
AddBits(a, b) ==
    LET n == Len(a)
        carry(k) == IF \E j \in (k + 1)..n :
                          /\ a[j] = 1 /\ b[j] = 1
                          /\ \A i \in (k + 1)..(j - 1) : a[i] + b[i] = 1
                    THEN 1 ELSE 0
    IN  [k \in 1..n |-> (a[k] + b[k] + carry(k)) % 2]

\* a + b for binary numbers, one place longer than the longer of the two.
SumBits(a, b) ==
    LET places == (IF Len(a) >= Len(b) THEN Len(a) ELSE Len(b)) + 1
    IN  AddBits(Zeros(places - Len(a)) \o a, Zeros(places - Len(b)) \o b)

\* bits * n for an int n >= 0, by shifting and adding.
RECURSIVE TimesBits(_, _)
TimesBits(bits, n) ==
    IF n = 0 THEN <<>>
    ELSE LET rest == TimesBits(bits, n \div 2) \o <<0>>
         IN  IF n % 2 = 1 THEN SumBits(rest, bits) ELSE rest

\* A binary number without its leading zeros.
StripZeros(bits) ==
    IF \A k \in 1..Len(bits) : bits[k] = 0 THEN <<>>
    ELSE LET first == CHOOSE k \in 1..Len(bits) :
                          bits[k] = 1 /\ \A j \in 1..(k - 1) : bits[j] = 0
         IN  SubSeq(bits, first, Len(bits))

\* x * n for a float x and a float n that is a small non-negative integer:
\* the double nearest to the product.
FloatTimes(x, n) ==
    IF x.zero \/ n = 0 THEN FloatZero
    ELSE LET product == StripZeros(TimesBits(x.mant, n))
         IN  RoundToDouble(product \o <<0>>, FALSE,
                           x.exp + Len(product) - FloatBits)

\* x <= y for floats that are not negative.
FloatLeq(x, y) ==
    \/ x.zero
    \/ /\ ~y.zero
       /\ \/ x.exp < y.exp
          \/ /\ x.exp = y.exp
             /\ \A k \in 1..FloatBits :
                   x.mant[k] > y.mant[k] => \E j \in 1..(k - 1) : x.mant[j] < y.mant[j]

\* A success rate that takes an empty migration for a full success.
success_rate_empty_is_full(result) ==
    IF result.total_tracks = 0
    THEN TrueDiv(100, 1)
    ELSE FloatTimes(TrueDiv(result.successful_tracks, result.total_tracks), 100)

\* MigrationResult.success_rate: 0.0 for an empty result, otherwise
\* (successful_tracks / total_tracks) * 100 in floats, the division rounded
\* and then the product.
success_rate(result) ==
    IF result.total_tracks = 0
    THEN FloatZero
    ELSE FloatTimes(TrueDiv(result.successful_tracks, result.total_tracks), 100)

NoResult == MigrationResult("", "", 0, 0, <<>>, <<>>)

\* The privacy left at create_playlist's default.
PrivacyDefault(playlist) == "PRIVATE"

\* privacy = "PUBLIC" if spotify_playlist.public else "PRIVATE"
Privacy(playlist) == IF playlist.public THEN "PUBLIC" ELSE "PRIVATE"

\* spotify_playlist.description or "Migrated from Spotify"
DescriptionOrDefault(playlist) ==
    IF playlist.description # "" THEN playlist.description ELSE "Migrated from Spotify"

\* The keyword arguments of self.ytmusic.create_playlist(...)
CreateArgs(playlist) ==
    [title |-> playlist.name, description |-> DescriptionOrDefault(playlist),
     privacy_status |-> Privacy(playlist)]

\* No create call has been made yet.
NoCreateArgs == [title |-> "", description |-> "", privacy_status |-> ""]

\* migrate_playlist up to its first destination call.
MigrateStart(playlist) ==
    [pl |-> playlist, pc |-> "create", i |-> 0, phase |-> "start",
     yt_playlist_id |-> NoneStr, successful_track_ids |-> <<>>,
     failed_tracks |-> <<>>, skipped_tracks |-> <<>>,
     youtube_id |-> [k \in 1..Len(playlist.tracks) |-> playlist.tracks[k].youtube_id],
     attempted |-> <<>>, last_log |-> "", searches |-> 0, add_calls |-> <<>>,
     create_args |-> NoCreateArgs, dest_exc |-> NoExc,
     playlists |-> <<>>, items |-> <<>>,
     returned |-> FALSE, result |-> NoResult, exc |-> NoExc]

\* return MigrationResult(...)
Return(m) ==
    [m EXCEPT !.pc = "done", !.returned = TRUE,
              !.result = MigrationResult(m.pl.name, m.pl.name, Len(m.pl.tracks),
                                         Len(m.successful_track_ids),
                                         m.failed_tracks, m.skipped_tracks)]

\* An exception leaves migrate_playlist.
Propagate(m, e) == [m EXCEPT !.pc = "raised", !.exc = e]

\* After the loop, with the insert requested whatever the list holds.
AfterLoopAlwaysAdds(m) == [m EXCEPT !.pc = "add"]

\* After the loop: if successful_track_ids: add them; then return.
AfterLoop(m) ==
    IF Len(m.successful_track_ids) > 0 THEN [m EXCEPT !.pc = "add"] ELSE Return(m)

\* A variant of the loop that requests the insert as soon as one track is
\* resolved, before the remaining tracks are searched.
NextTrackInsertsEarly(m) ==
    IF m.i < Len(m.pl.tracks) /\ Len(m.successful_track_ids) = 0
    THEN [m EXCEPT !.pc = "search", !.i = @ + 1, !.phase = "start",
                   !.searches = 0, !.attempted = Append(@, m.i + 1)]
    ELSE AfterLoop(m)

\* for track in spotify_playlist.tracks: the next track, or the end of the loop.
NextTrack(m) ==
    IF m.i < Len(m.pl.tracks)
    THEN [m EXCEPT !.pc = "search", !.i = @ + 1, !.phase = "start",
                   !.searches = 0, !.attempted = Append(@, m.i + 1)]
    ELSE AfterLoop(m)

\* The loop body with a not-found track left out of every list.
ResolveOutcomeDropsNotFound(m, st) ==
    IF st.status = "returned"
    THEN IF TruthyStr(st.value)
         THEN [m EXCEPT !.successful_track_ids = Append(@, st.value),
                        !.youtube_id[m.i] = st.value, !.last_log = "found"]
         ELSE [m EXCEPT !.last_log = "not_found"]
    ELSE IF IsInstance(st.exc, {"RateLimitError", "NetworkError", "APIError"})
    THEN [m EXCEPT !.failed_tracks = Append(@, m.i), !.last_log = "error"]
    ELSE IF IsInstance(st.exc, {"Exception"})
    THEN [m EXCEPT !.failed_tracks = Append(@, m.i), !.last_log = "unexpected"]
    ELSE Propagate(m, st.exc)

\* The loop body without its `except Exception` handler.
ResolveOutcomeTaxonomyOnly(m, st) ==
    IF st.status = "returned"
    THEN IF TruthyStr(st.value)
         THEN [m EXCEPT !.successful_track_ids = Append(@, st.value),
                        !.youtube_id[m.i] = st.value, !.last_log = "found"]
         ELSE [m EXCEPT !.failed_tracks = Append(@, m.i), !.last_log = "not_found"]
    ELSE IF IsInstance(st.exc, {"RateLimitError", "NetworkError", "APIError"})
    THEN [m EXCEPT !.failed_tracks = Append(@, m.i), !.last_log = "error"]
    ELSE Propagate(m, st.exc)

\* The loop body with the field written before the id is looked at.
ResolveOutcomeWritesAlways(m, st) ==
    IF st.status = "returned"
    THEN IF TruthyStr(st.value)
         THEN [m EXCEPT !.successful_track_ids = Append(@, st.value),
                        !.youtube_id[m.i] = st.value, !.last_log = "found"]
         ELSE [m EXCEPT !.failed_tracks = Append(@, m.i),
                        !.youtube_id[m.i] = st.value, !.last_log = "not_found"]
    ELSE IF IsInstance(st.exc, {"RateLimitError", "NetworkError", "APIError"})
    THEN [m EXCEPT !.failed_tracks = Append(@, m.i), !.last_log = "error"]
    ELSE IF IsInstance(st.exc, {"Exception"})
    THEN [m EXCEPT !.failed_tracks = Append(@, m.i), !.last_log = "unexpected"]
    ELSE Propagate(m, st.exc)

\* The loop body with a skip path: a track without match counts as skipped.
ResolveOutcomeSkipsNotFound(m, st) ==
    IF st.status = "returned"
    THEN IF TruthyStr(st.value)
         THEN [m EXCEPT !.successful_track_ids = Append(@, st.value),
                        !.youtube_id[m.i] = st.value, !.last_log = "found"]
         ELSE [m EXCEPT !.skipped_tracks = Append(@, m.i), !.last_log = "not_found"]
    ELSE IF IsInstance(st.exc, {"RateLimitError", "NetworkError", "APIError"})
    THEN [m EXCEPT !.failed_tracks = Append(@, m.i), !.last_log = "error"]
    ELSE IF IsInstance(st.exc, {"Exception"})
    THEN [m EXCEPT !.failed_tracks = Append(@, m.i), !.last_log = "unexpected"]
    ELSE Propagate(m, st.exc)

\* The loop body's try/except around self.search_track(track), given how the
\* wrapped call ended (st.status is "returned" or "raised").  last_log is
\* which of the four branches the iteration took.
ResolveOutcome(m, st) ==
    IF st.status = "returned"
    THEN IF TruthyStr(st.value)
         THEN [m EXCEPT !.successful_track_ids = Append(@, st.value),
                        !.youtube_id[m.i] = st.value, !.last_log = "found"]
         ELSE [m EXCEPT !.failed_tracks = Append(@, m.i), !.last_log = "not_found"]
    ELSE IF IsInstance(st.exc, {"RateLimitError", "NetworkError", "APIError"})
    THEN [m EXCEPT !.failed_tracks = Append(@, m.i), !.last_log = "error"]
    ELSE IF IsInstance(st.exc, {"Exception"})
    THEN [m EXCEPT !.failed_tracks = Append(@, m.i), !.last_log = "unexpected"]
    ELSE Propagate(m, st.exc)

\* One loop iteration's end: the outcome is recorded and the loop goes on.
AfterSearchTrack(m, st) ==
    LET recorded == ResolveOutcome(m, st) IN
    IF recorded.pc = "raised" THEN recorded ELSE NextTrack(recorded)

\* The creation with its failure swallowed: the loop starts without playlist.
AfterCreateGoesOn(m, st) ==
    IF st.status = "returned"
    THEN NextTrack([m EXCEPT !.yt_playlist_id = st.value])
    ELSE NextTrack(m)

\* yt_playlist_id = self.create_playlist(...), given how the wrapped call ended.
AfterCreate(m, st) ==
    IF st.status = "returned"
    THEN NextTrack([m EXCEPT !.yt_playlist_id = st.value])
    ELSE Propagate(m, st.exc)

\* A variant that undoes the migration when the insert fails: the playlist
\* is deleted again and the tracks get their former ids back.
AfterAddRollsBack(m, st) ==
    IF st.status = "returned" THEN Return(m)
    ELSE Propagate([m EXCEPT !.playlists = <<>>,
                             !.youtube_id = [k \in 1..Len(m.pl.tracks) |->
                                                m.pl.tracks[k].youtube_id]],
                   st.exc)

\* self.add_tracks_to_playlist(...), given how the wrapped call ended.
AfterAdd(m, st) ==
    IF st.status = "returned" THEN Return(m) ELSE Propagate(m, st.exc)

\* migrate_playlist from the end of one decorated call to the start of the
\* next one, or to its own end.
AfterCall(m, st) ==
    CASE m.pc = "create" -> AfterCreate(m, st)
      [] m.pc = "search" -> AfterSearchTrack(m, st)
      [] m.pc = "add" -> AfterAdd(m, st)

\* The decorator in force at the call migrate_playlist is making.
PolicyAt(m) ==
    CASE m.pc = "create" -> CreatePolicy
      [] m.pc = "search" -> SearchPolicy
      [] m.pc = "add" -> AddPolicy
      [] OTHER -> IdlePolicy

\* A variant that lets the destination's failure out as it came.
DestOutcomeUncategorized(answer) ==
    IF answer.ok THEN Returns(answer.value) ELSE Raises(answer.exc)

\* The outcome of a destination call that is not a search:
\* try: return self.ytmusic.<call>(...)
\* except Exception as e: raise categorize_api_error(e, "YouTube Music") from e
DestOutcome(answer) ==
    IF answer.ok THEN Returns(answer.value)
    ELSE IF IsInstance(answer.exc, {"Exception"})
    THEN Raises(categorize_api_error(answer.exc, "YouTube Music"))
    ELSE Raises(answer.exc)

DestReturns(value) == [ok |-> TRUE, value |-> value, exc |-> NoExc]
DestRaises(exc) == [ok |-> FALSE, value |-> "", exc |-> exc]

----------------------------------------------------------------------------
(* The values the parts of the state have while another entry point runs. *)

IdleCat ==
    [given |-> NoExc, service |-> "", done |-> FALSE, result |-> NoExc,
     again |-> FALSE, second |-> NoExc]
IdleMatch ==
    [status |-> "idle", track |-> [name |-> "", artists |-> <<>>, isrc |-> ""],
     searches |-> <<>>, answers |-> <<>>, out |-> Returns(NoneStr)]
IdleMigrate == [pc |-> "idle"]
IdleCli == [pc |-> "idle"]

----------------------------------------------------------------------------
(* SpecRetry: retry_with_backoff around an arbitrary function.  The        *)
(* decorator's arguments are drawn in the initial state; each step invokes *)
(* the function once, with any of the outcomes below.                      *)

Hints == {Absent, None} \cup {Val(h) : h \in 0..MaxHint}

\* Arguments given to the decorator (the defaults among them).
RetryPolicies ==
    {Policy("test_func", m, d, c, b, ex, rl) :
        m \in 0..MaxAttemptsBound,
        d \in {DefaultInitialDelay, 3},
        c \in {2, DefaultMaxDelay},
        b \in {DefaultExponentialBase, 3},
        ex \in {DefaultExceptions, {"NetworkError", "RateLimitError", "APIError"},
                {"NetworkError"}},
        rl \in {DefaultRateLimitExceptions, {}}}

\* What the wrapped function may raise.
RetryFailures ==
    {RateLimitError("Service", h) : h \in Hints \ {Absent}}
    \cup {[PlainError("Exception", "error") EXCEPT !.retry_after = Val(MaxHint)],
          PlainError("ValueError", "wrong exception"),
          NetworkError("connection refused"),
          MaxRetriesExceededError("inner", DefaultMaxAttempts)}

\* What the wrapped function may return (the wrapper does not look at it).
RetryValues == {"success", ""}

RetryOutcomes == {Returns(v) : v \in RetryValues} \cup {Raises(e) : e \in RetryFailures}

RetryInit ==
    /\ mode = "retry"
    /\ pol \in RetryPolicies
    /\ rs = WrapperStart(pol)
    /\ hist = <<>>
    /\ cat = IdleCat
    /\ mt = IdleMatch
    /\ mg = IdleMigrate
    /\ cli = IdleCli

\* One trip round the while loop: func is invoked and its outcome handled.
RetryAttempt ==
    /\ mode = "retry"
    /\ rs.status = "running"
    /\ LoopGuard(pol, rs)
    /\ \E o \in RetryOutcomes :
          /\ rs' = WrapperStep(pol, rs, o)
          /\ hist' = Append(hist, o)
    /\ UNCHANGED <<mode, pol, cat, mt, mg, cli>>

\* The call after the loop, reached when the loop is never entered.
RetryFinalCall ==
    /\ mode = "retry"
    /\ rs.status = "running"
    /\ ~LoopGuard(pol, rs)
    /\ \E o \in RetryOutcomes :
          /\ rs' = WrapperStep(pol, rs, o)
          /\ hist' = Append(hist, o)
    /\ UNCHANGED <<mode, pol, cat, mt, mg, cli>>

RetryNext == RetryAttempt \/ RetryFinalCall

SpecRetry == RetryInit /\ [][RetryNext]_vars

----------------------------------------------------------------------------
(* SpecCategorize: categorize_api_error on an arbitrary failure.  The      *)
(* failure's message is put together from fragments, so that indicators    *)
(* occur alone, together, in either case, split over two fragments, or not *)
(* at all; its optional fields are present, None, zero or a number.        *)

CatFragments ==
    {"Rate Limit", "Too Many Requests", "429", "quota exceeded", "Throttled",
     "Connection", "timeout", "Network", "DNS", "unreachable", "socket",
     "server error", "42", "9"}

RECURSIVE Messages(_)
Messages(n) ==
    IF n = 0 THEN {""}
    ELSE LET shorter == Messages(n - 1) IN
         shorter \cup {m \o f : m \in shorter, f \in CatFragments}

CatServices == {"YouTube Music", "Spotify"}

\* The failures handed to the categorizer: third-party exceptions with any of
\* the messages and fields.
CatFields ==
    {<<Absent, Absent, Absent>>, <<None, Absent, Val(503)>>,
     <<Val(0), Val(0), Val(503)>>, <<Val(30), Val(500), Absent>>,
     <<Val(30), None, None>>, <<Absent, None, Val(0)>>}

CatErrors ==
    {Exc("Exception", m, f[1], f[2], f[3]) : m \in Messages(MaxFragments), f \in CatFields}

CatInit ==
    /\ mode = "categorize"
    /\ cat \in {[IdleCat EXCEPT !.given = e, !.service = sv] :
                   e \in CatErrors, sv \in CatServices}
    /\ pol = IdlePolicy
    /\ rs = IdleWrapper
    /\ hist = <<>>
    /\ mt = IdleMatch
    /\ mg = IdleMigrate
    /\ cli = IdleCli

\* categorize_api_error(error, service)
Categorize ==
    /\ mode = "categorize"
    /\ ~cat.done
    /\ cat' = [cat EXCEPT !.done = TRUE,
                          !.result = categorize_api_error(cat.given, cat.service)]
    /\ UNCHANGED <<mode, pol, rs, hist, mt, mg, cli>>

\* categorize_api_error applied to the error it produced, under the same
\* label: what search_track's handler does with the error raised by
\* _search_with_error_handling.
Recategorize ==
    /\ mode = "categorize"
    /\ cat.done
    /\ ~cat.again
    /\ cat' = [cat EXCEPT !.again = TRUE,
                          !.second = categorize_api_error(cat.result, cat.service)]
    /\ UNCHANGED <<mode, pol, rs, hist, mt, mg, cli>>

CatNext == Categorize \/ Recategorize

SpecCategorize == CatInit /\ [][CatNext]_vars

----------------------------------------------------------------------------
(* SpecMatch: one run of search_track's body.  The track is drawn in the   *)
(* initial state; each step is one destination search, answered with any   *)
(* list of up to MaxResults results or with a failure, and what the body   *)
(* does with the answer.                                                   *)

MatchTracks ==
    {[name |-> n, artists |-> a, isrc |-> c] :
        n \in {"Song", "SONG (Remastered) - Live"},
        a \in {<<"Artist">>, <<"Nobody", "ARTIST">>, <<"Nobody">>, <<"">>},
        c \in {"", "USRC17607839"}}

\* What a result looks like: its title and its artists' names.
ResultShapes ==
    {[title |-> "Song (Remastered)", artists |-> <<"The Artist">>],
     [title |-> "Song", artists |-> <<"Someone", "Else">>],
     [title |-> "Different", artists |-> <<"ARTIST">>],
     [title |-> "", artists |-> <<"Else", "Artist">>],
     [title |-> "Different", artists |-> <<>>]}

RECURSIVE ShapeLists(_)
ShapeLists(n) ==
    IF n = 0 THEN {<<>>}
    ELSE LET shorter == ShapeLists(n - 1) IN
         shorter \cup {Append(l, sh) : l \in shorter, sh \in ResultShapes}

\* A result list: the i-th result has the video id prefix + i.
Results(prefix, shapes) ==
    [i \in 1..Len(shapes) |->
        [videoId |-> prefix \o ToString(i), title |-> shapes[i].title,
         artists |-> shapes[i].artists]]

\* What the destination's search may raise.
SearchErrors ==
    {[PlainError("Exception", "HTTP 429") EXCEPT !.retry_after = Val(MaxHint)],
     PlainError("Exception", "Timeout"),
     [PlainError("Exception", "Server error") EXCEPT !.status_code = Val(500)]}

SearchAnswers(prefix) ==
    {SearchOk(Results(prefix, l)) : l \in ShapeLists(MaxResults)}
    \cup {SearchFails(e) : e \in SearchErrors}

MatchInit ==
    /\ mode = "match"
    /\ \E t \in MatchTracks :
          mt = [status |-> "start", track |-> t, searches |-> <<>>,
                answers |-> <<>>, out |-> Returns(NoneStr)]
    /\ pol = IdlePolicy
    /\ rs = IdleWrapper
    /\ hist = <<>>
    /\ cat = IdleCat
    /\ mg = IdleMigrate
    /\ cli = IdleCli

\* The identifier search and the validation of its results.
MatchIsrcSearch ==
    /\ mode = "match"
    /\ mt.status = "start"
    /\ HasIsrc(mt.track)
    /\ \E answer \in SearchAnswers("isrc-") :
          LET r == IsrcPhase(mt.track, answer) IN
          mt' = [mt EXCEPT !.searches = Append(@, SearchCall(mt.track.isrc, IsrcLimit)),
                           !.answers = Append(@, answer),
                           !.status = IF r.done THEN "done" ELSE "name",
                           !.out = r.out]
    /\ UNCHANGED <<mode, pol, rs, hist, cat, mg, cli>>

\* The name and artist search, the validation of its results and the fallback.
MatchNameSearch ==
    /\ mode = "match"
    /\ \/ mt.status = "name"
       \/ mt.status = "start" /\ ~HasIsrc(mt.track)
    /\ \E answer \in SearchAnswers("name-") :
          mt' = [mt EXCEPT !.searches = Append(@, SearchCall(search_query(mt.track),
                                                             NameLimit)),
                           !.answers = Append(@, answer),
                           !.status = "done",
                           !.out = NamePhase(mt.track, answer)]
    /\ UNCHANGED <<mode, pol, rs, hist, cat, mg, cli>>

MatchNext == MatchIsrcSearch \/ MatchNameSearch

SpecMatch == MatchInit /\ [][MatchNext]_vars

----------------------------------------------------------------------------
(* Spec: migrate_playlist on a playlist drawn in the initial state.  A     *)
(* step is one call to the destination (create, search or add items),      *)
(* which answers or fails as it pleases, with what the body and the retry  *)
(* wrapper of the decorated call do with the answer; or it is what         *)
(* migrate_playlist does between two decorated calls.  pol, rs and hist    *)
(* belong to the decorated call in progress, or to the last one finished;  *)
(* mg.dest_exc is what the destination raised at the last call of the      *)
(* decorated call in progress (NoExc when it answered).                    *)

MgTracks ==
    {[name |-> "Song", artists |-> <<"Artist">>, isrc |-> "USRC17607839",
      youtube_id |-> NoneStr],
     [name |-> "Other Song", artists |-> <<"Nobody">>, isrc |-> "",
      youtube_id |-> "old-id"]}

RECURSIVE TrackLists(_)
TrackLists(n) ==
    IF n = 0 THEN {<<>>}
    ELSE LET shorter == TrackLists(n - 1) IN
         shorter \cup {Append(l, t) : l \in shorter, t \in MgTracks}

MgPlaylists ==
    {[name |-> "My Playlist", description |-> d, public |-> b, tracks |-> ts] :
        d \in {"", "Description"}, b \in BOOLEAN, ts \in TrackLists(MaxTracks)}

\* What the destination answers to a search for the i-th track.
MgSearchAnswers(prefix) ==
    {SearchOk(Results(prefix, l)) :
        l \in {<<>>,
               <<[title |-> "Song (Remastered)", artists |-> <<"The Artist">>]>>,
               <<[title |-> "Different", artists |-> <<>>]>>}}
    \cup {SearchFails(e) : e \in SearchErrors}

\* Failures of the setup, as the destination client may raise them.
SetupErrors ==
    {ConfigurationError("Headers file not found"), AuthenticationError("YouTube Music")}

\* What the destination's create_playlist answers: the new playlist's id, or a failure.
CreateAnswers(m) ==
    {DestReturns("PL" \o ToString(Len(m.playlists) + 1))}
    \cup {DestRaises(e) : e \in SearchErrors \cup SetupErrors}

\* What the destination's add_playlist_items answers.
AddAnswers == {DestReturns("STATUS_SUCCEEDED")} \cup {DestRaises(e) : e \in SearchErrors}

MgInit ==
    /\ mode = "migrate"
    /\ \E playlist \in MgPlaylists : mg = MigrateStart(playlist)
    /\ pol = CreatePolicy
    /\ rs = WrapperStart(CreatePolicy)
    /\ hist = <<>>
    /\ cat = IdleCat
    /\ mt = IdleMatch
    /\ cli = IdleCli

\* One invocation of create_playlist's body by its wrapper.
MgCreate ==
    /\ mode = "migrate"
    /\ mg.pc = "create"
    /\ rs.status = "running"
    /\ \E answer \in CreateAnswers(mg) :
          /\ rs' = WrapperStep(pol, rs, DestOutcome(answer))
          /\ hist' = Append(hist, DestOutcome(answer))
          /\ mg' = [mg EXCEPT !.create_args = CreateArgs(mg.pl),
                              !.dest_exc = answer.exc,
                              !.playlists = IF answer.ok
                                            THEN Append(@, CreateArgs(mg.pl))
                                            ELSE @]
    /\ UNCHANGED <<mode, pol, cat, mt, cli>>

\* The identifier search of search_track's body, for the current track.
MgIsrcSearch ==
    /\ mode = "migrate"
    /\ mg.pc = "search"
    /\ rs.status = "running"
    /\ mg.phase = "start"
    /\ HasIsrc(mg.pl.tracks[mg.i])
    /\ \E answer \in MgSearchAnswers("t" \o ToString(mg.i) \o "-") :
          LET r == IsrcPhase(mg.pl.tracks[mg.i], answer) IN
          IF r.done
          THEN /\ rs' = WrapperStep(pol, rs, r.out)
               /\ hist' = Append(hist, r.out)
               /\ mg' = [mg EXCEPT !.searches = @ + 1, !.dest_exc = answer.exc]
          ELSE /\ mg' = [mg EXCEPT !.searches = @ + 1, !.phase = "name",
                                   !.dest_exc = answer.exc]
               /\ UNCHANGED <<rs, hist>>
    /\ UNCHANGED <<mode, pol, cat, mt, cli>>

\* The name and artist search of search_track's body, for the current track.
MgNameSearch ==
    /\ mode = "migrate"
    /\ mg.pc = "search"
    /\ rs.status = "running"
    /\ mg.phase = "name" \/ ~HasIsrc(mg.pl.tracks[mg.i])
    /\ \E answer \in MgSearchAnswers("t" \o ToString(mg.i) \o "-") :
          /\ rs' = WrapperStep(pol, rs, NamePhase(mg.pl.tracks[mg.i], answer))
          /\ hist' = Append(hist, NamePhase(mg.pl.tracks[mg.i], answer))
          /\ mg' = [mg EXCEPT !.searches = @ + 1, !.phase = "start",
                              !.dest_exc = answer.exc]
    /\ UNCHANGED <<mode, pol, cat, mt, cli>>

\* One invocation of add_tracks_to_playlist's body by its wrapper.
MgAdd ==
    /\ mode = "migrate"
    /\ mg.pc = "add"
    /\ rs.status = "running"
    /\ IF Len(mg.successful_track_ids) = 0
       THEN /\ rs' = WrapperStep(pol, rs, Returns("No tracks to add"))
            /\ hist' = Append(hist, Returns("No tracks to add"))
            /\ mg' = mg
       ELSE \E answer \in AddAnswers :
               LET call == [playlist_id |-> mg.yt_playlist_id,
                            track_ids |-> mg.successful_track_ids]
               IN /\ rs' = WrapperStep(pol, rs, DestOutcome(answer))
                  /\ hist' = Append(hist, DestOutcome(answer))
                  /\ mg' = [mg EXCEPT !.add_calls = Append(@, call),
                                      !.dest_exc = answer.exc,
                                      !.items = IF answer.ok THEN Append(@, call)
                                                ELSE @]
    /\ UNCHANGED <<mode, pol, cat, mt, cli>>

\* The decorated call has returned or raised: migrate_playlist takes it from
\* there, up to the start of its next decorated call or to its own end.
MgContinue ==
    /\ mode = "migrate"
    /\ mg.pc \in {"create", "search", "add"}
    /\ rs.status \in {"returned", "raised"}
    /\ mg' = [AfterCall(mg, rs) EXCEPT !.dest_exc = NoExc]
    /\ IF mg'.pc \in {"done", "raised"}
       THEN UNCHANGED <<pol, rs, hist>>
       ELSE /\ pol' = PolicyAt(mg')
            /\ rs' = WrapperStart(PolicyAt(mg'))
            /\ hist' = <<>>
    /\ UNCHANGED <<mode, cat, mt, cli>>

Next == MgCreate \/ MgIsrcSearch \/ MgNameSearch \/ MgAdd \/ MgContinue

Spec == MgInit /\ [][Next]_vars

----------------------------------------------------------------------------
(* SpecRate: the success_rate property of a MigrationResult.  The result   *)
(* is drawn in the initial state, with the counts a migration can return   *)
(* (successful_tracks + len(failed_tracks) = total_tracks); the one step   *)
(* reads the property.                                                     *)

RateResults ==
    UNION {{MigrationResult("Mix", "Mix", total, successful,
                            [k \in 1..(total - successful) |-> successful + k], <<>>) :
               successful \in 0..total} : total \in 0..MaxTotal}

RateInit ==
    /\ mode = "rate"
    /\ \E result \in RateResults : mg = [pc |-> "made", result |-> result, rate |-> FloatZero]
    /\ pol = IdlePolicy
    /\ rs = IdleWrapper
    /\ hist = <<>>
    /\ cat = IdleCat
    /\ mt = IdleMatch
    /\ cli = IdleCli

\* result.success_rate
ReadRate ==
    /\ mode = "rate"
    /\ mg.pc = "made"
    /\ mg' = [mg EXCEPT !.pc = "read", !.rate = success_rate(mg.result)]
    /\ UNCHANGED <<mode, pol, rs, hist, cat, mt, cli>>

RateNext == ReadRate

SpecRate == RateInit /\ [][RateNext]_vars

----------------------------------------------------------------------------
(* Source reader (services/spotify_service.py).  A listed playlist is      *)
(* [name, public].  The source's answer to one get_user_playlists is       *)
(* [pages, fail, exc]: the pages of the listing and which of the reader's  *)
(* underlying calls raises exc, if any ("listing" is                       *)
(* sp.current_user_playlists, "details" the first _fetch_playlist_details, *)
(* "next" the first sp.next; "none" when every call answers).              *)

Max(a, b) == IF a >= b THEN a ELSE b

RECURSIVE Flatten(_)
Flatten(pages) == IF Len(pages) = 0 THEN <<>> ELSE pages[1] \o Flatten(Tail(pages))

ListingReturns(playlists) ==
    [ok |-> TRUE, playlists |-> playlists, exc |-> NoExc, listing_calls |-> 1]
ListingRaises(exc) ==
    [ok |-> FALSE, playlists |-> <<>>, exc |-> exc, listing_calls |-> 1]

\* SpotifyService.get_user_playlists(): one sp.current_user_playlists call,
\* the details of every item, sp.next while there is a next page.  There is
\* no handler and no decorator: whatever an underlying call raises leaves
\* the method as it is.
get_user_playlists(source) ==
    IF source.fail = "listing" THEN ListingRaises(source.exc)
    ELSE IF source.fail = "details" /\ Len(Flatten(source.pages)) > 0
    THEN ListingRaises(source.exc)
    ELSE IF source.fail = "next" /\ Len(source.pages) > 1
    THEN ListingRaises(source.exc)
    ELSE ListingReturns(Flatten(source.pages))

NoPlaylist == [name |-> NoneStr, public |-> FALSE]

\* SpotifyService.get_playlist_by_name(name): the first listed playlist whose
\* lower-cased name is the lower-cased argument, or None.
get_playlist_by_name(source, name) ==
    LET listed == get_user_playlists(source)
        hits == {k \in 1..Len(listed.playlists) :
                    Lower(listed.playlists[k].name) = Lower(name)}
        first == CHOOSE k \in hits : \A j \in hits : k <= j
    IN  IF ~listed.ok
        THEN [ok |-> FALSE, found |-> FALSE, playlist |-> NoPlaylist,
              exc |-> listed.exc, listed |-> listed]
        ELSE IF hits = {}
        THEN [ok |-> TRUE, found |-> FALSE, playlist |-> NoPlaylist,
              exc |-> NoExc, listed |-> listed]
        ELSE [ok |-> TRUE, found |-> TRUE, playlist |-> listed.playlists[first],
              exc |-> NoExc, listed |-> listed]

----------------------------------------------------------------------------
(* Commands (cli.py).  A command's state is the record c: its arguments,   *)
(* its position pc, what its collaborators were asked and what surfaced,   *)
(* and the exit code once pc = "exited" (a command function that returns   *)
(* exits with 0, sys.exit(1) with 1).  listing is what the source listed,  *)
(* playlists what the command goes on with, migrated what it handed to     *)
(* ytmusic.migrate_playlist, call by call, and destination the playlists   *)
(* those calls created in the destination, by name.                        *)

Commands == {"list-playlists", "list-albums", "migrate-playlist", "migrate-all"}

\* The first position of each command function.
FirstStep(command) == IF command = "migrate-all" THEN "confirm" ELSE "spotify"

CommandStart(command, public, limit, name) ==
    [command |-> command, public |-> public, limit |-> limit, name |-> name,
     pc |-> FirstStep(command), setup |-> "ok", source_fail |-> "none",
     source_exc |-> NoExc,
     listing_calls |-> 0, listing |-> <<>>, playlists |-> <<>>,
     not_found |-> FALSE, cancelled |-> FALSE, migrated |-> <<>>, results |-> <<>>,
     destination |-> <<>>,
     raised |-> NoExc, clause |-> "", summary |-> FALSE, exit_code |-> 0]

\* The command function returns, or sys.exit(code) is called.
Exit(c, code) == [c EXCEPT !.pc = "exited", !.exit_code = code]

\* The except clauses of list_playlists, in order.
ListPlaylistsClauses ==
    <<[classes |-> {"RateLimitError"}, label |-> "rate_limit"],
      [classes |-> {"NetworkError"}, label |-> "network"],
      [classes |-> {"AuthenticationError", "ConfigurationError", "APIError"},
       label |-> "error"],
      [classes |-> {"Exception"}, label |-> "unexpected"]>>

\* The except clause of list_albums.
ListAlbumsClauses == <<[classes |-> {"Exception"}, label |-> "error"]>>

\* The except clauses of migrate_playlist and migrate_all, in order.
MigrateClauses ==
    <<[classes |-> {"MaxRetriesExceededError"}, label |-> "max_retries"]>>
    \o ListPlaylistsClauses

Clauses(command) ==
    CASE command = "list-playlists" -> ListPlaylistsClauses
      [] command = "list-albums" -> ListAlbumsClauses
      [] OTHER -> MigrateClauses

\* The first except clause that matches the exception.
ExceptClause(command, e) ==
    LET clauses == Clauses(command)
        matching == {k \in 1..Len(clauses) : IsInstance(e, clauses[k].classes)}
    IN  IF matching = {} THEN "uncaught"
        ELSE clauses[CHOOSE k \in matching : \A j \in matching : k <= j].label

\* A variant whose last clause reports the failure and lets the command return.
HandlerReturnsOnUnexpected(c, e) ==
    LET clause == ExceptClause(c.command, e) IN
    Exit([c EXCEPT !.raised = e, !.clause = clause],
         IF clause \in {"unexpected"} THEN 0 ELSE 1)

\* The exception leaves the command function: no clause of it matched.
Uncaught(c, e) == [c EXCEPT !.raised = e, !.clause = "uncaught", !.pc = "raised"]

\* An exception raised inside the command's try block: the matching clause
\* prints its message and calls sys.exit(1).
Handler(c, e) ==
    IF ExceptClause(c.command, e) = "uncaught" THEN Uncaught(c, e)
    ELSE Exit([c EXCEPT !.raised = e, !.clause = ExceptClause(c.command, e)], 1)

\* What follows get_spotify_service() in each command.
AfterSpotifyService(command) ==
    CASE command = "list-playlists" -> "user_info"
      [] command = "list-albums" -> "albums"
      [] OTHER -> "ytmusic"

\* What follows get_ytmusic_service() in each command.
AfterYtmusicService(command) ==
    IF command = "migrate-playlist" THEN "find" ELSE "listing"

\* get_spotify_service(): without credentials in the environment the command
\* prints the instructions and calls sys.exit(1).
get_spotify_service(c, credentials) ==
    IF credentials THEN [c EXCEPT !.pc = AfterSpotifyService(c.command)]
    ELSE Exit([c EXCEPT !.setup = "no_credentials"], 1)

\* get_ytmusic_service(): a failure of the constructor is reported and
\* followed by sys.exit(1), by `except ConfigurationError` or by
\* `except Exception`.
get_ytmusic_service(c, outcome) ==
    IF outcome.ok THEN [c EXCEPT !.pc = AfterYtmusicService(c.command)]
    ELSE IF IsInstance(outcome.exc, {"ConfigurationError", "Exception"})
    THEN Exit([c EXCEPT !.setup = "ytmusic_failed", !.raised = outcome.exc], 1)
    ELSE Uncaught([c EXCEPT !.setup = "ytmusic_failed"], outcome.exc)

\* playlists[:limit]
SliceTo(playlists, limit) ==
    SubSeq(playlists, 1,
           IF limit < 0 THEN Max(Len(playlists) + limit, 0)
           ELSE Min(limit, Len(playlists)))

\* if limit: playlists = playlists[:limit]
Limited(playlists, limit) ==
    IF Truthy(limit) THEN SliceTo(playlists, limit.v) ELSE playlists

\* playlist.public = public
WithVisibility(playlist, public) == [playlist EXCEPT !.public = public]

\* migrate_all after spotify.get_user_playlists() has returned or raised.
AfterListing(c, listed) ==
    LET counted == [c EXCEPT !.listing_calls = @ + listed.listing_calls] IN
    IF listed.ok
    THEN [counted EXCEPT !.listing = listed.playlists,
                         !.playlists = Limited(listed.playlists, c.limit),
                         !.pc = "loop"]
    ELSE Handler(counted, listed.exc)

\* migrate_playlist (the command) after spotify.get_playlist_by_name(name).
AfterFind(c, looked) ==
    LET counted == [c EXCEPT !.listing_calls = @ + looked.listed.listing_calls,
                             !.listing = looked.listed.playlists] IN
    IF ~looked.ok THEN Handler(counted, looked.exc)
    ELSE IF ~looked.found THEN Exit([counted EXCEPT !.not_found = TRUE], 1)
    ELSE [counted EXCEPT !.playlists = <<looked.playlist>>, !.pc = "migrate"]

\* A variant that isolates the playlists from each other: a failure is
\* noted and the loop goes on with the next playlist.
AfterMigrateIsolated(c, outcome) ==
    LET playlist == WithVisibility(c.playlists[Len(c.migrated) + 1], c.public)
        called == [c EXCEPT !.migrated = Append(@, playlist),
                            !.destination = IF outcome.shell
                                            THEN Append(@, playlist.name) ELSE @]
    IN  IF outcome.ok THEN [called EXCEPT !.results = Append(@, outcome.value)]
        ELSE [called EXCEPT !.raised = outcome.exc,
                            !.clause = ExceptClause(c.command, outcome.exc)]

\* One ytmusic.migrate_playlist(playlist) call of a command: the playlist
\* goes out with the visibility of the command line; the result is kept, or
\* the failure handled.  Whatever the call created in the destination stays
\* there: the command has no call that removes anything.
AfterMigrate(c, outcome) ==
    LET playlist == WithVisibility(c.playlists[Len(c.migrated) + 1], c.public)
        called == [c EXCEPT !.migrated = Append(@, playlist),
                            !.destination = IF outcome.shell
                                            THEN Append(@, playlist.name) ELSE @]
    IN  IF outcome.ok THEN [called EXCEPT !.results = Append(@, outcome.value)]
        ELSE Handler(called, outcome.exc)

\* The end of migrate_playlist (the command): the result is printed.
MigratePlaylistDone(c) == Exit(c, 0)

\* The end of migrate_all: the summary is printed.
Summary(c) == Exit([c EXCEPT !.summary = TRUE], 0)

----------------------------------------------------------------------------
(* SpecCli: one command of the command line, from its first statement to   *)
(* its exit, with its collaborators answering or failing in any way.       *)

PlaylistNames(n) == [k \in 1..n |-> "Mix " \o ToString(k)]

\* The playlists the source lists, in listing order.
Listings ==
    {[k \in 1..n |-> [name |-> PlaylistNames(n)[k], public |-> TRUE]] :
        n \in 0..MaxPlaylists}

\* The listing in one page, or in two with the first playlist alone.
Pagings(listing) ==
    {<<listing>>}
    \cup (IF Len(listing) >= 2
          THEN {<<SubSeq(listing, 1, 1), SubSeq(listing, 2, Len(listing))>>}
          ELSE {})

\* What the source client raises: SpotifyException(429, -1, "rate limit")
\* and a connection failure.
SourceErrors ==
    {Exc("SpotifyException", "http status: 429, code:-1 - rate limit, reason: None",
         Absent, Absent, Val(429)),
     PlainError("ConnectionError", "Connection refused")}

SourceAnswers ==
    {[pages |-> p, fail |-> "none", exc |-> NoExc] :
        p \in UNION {Pagings(l) : l \in Listings}}
    \cup {[pages |-> p, fail |-> f, exc |-> e] :
            p \in UNION {Pagings(l) : l \in Listings},
            f \in {"listing", "details", "next"}, e \in SourceErrors}

\* What spotify.get_user_info() and spotify.get_saved_albums() give a
\* command: their answer, or what the source client raises (SpotifyService
\* has no handler and no decorator).
CallAnswers == {Returns("ok")} \cup {Raises(e) : e \in SourceErrors}

\* spotify.get_user_playlists_summary(): SpotifyService has no such
\* attribute, so the expression raises before anything is called.
SummaryMissing ==
    PlainError("AttributeError",
               "'SpotifyService' object has no attribute 'get_user_playlists_summary'")

\* The lists of failed tracks of a playlist of `total` tracks: any of its
\* positions, in playlist order.
FailedLists(total) ==
    UNION {{f \in [1..k -> 1..total] : \A i \in 1..(k - 1) : f[i] < f[i + 1]} :
              k \in 0..total}

\* What ytmusic.migrate_playlist(playlist) gives a command: the result of a
\* playlist of up to MaxTracks tracks, named after the playlist, with any of
\* its tracks failed; or MaxRetriesExceededError, of the creation or of the
\* insert.  shell says whether the call created its playlist in the
\* destination: it did when it returns and when the insert gave up, it did
\* not when the creation gave up.
MigrateAnswers(playlist) ==
    UNION {{[ok |-> TRUE, exc |-> NoExc, shell |-> TRUE,
             value |-> MigrationResult(playlist.name, playlist.name, total,
                                       total - Len(failed), failed, <<>>)] :
               failed \in FailedLists(total)} : total \in 0..MaxTracks}
    \cup {[ok |-> FALSE, value |-> NoResult, shell |-> FALSE,
           exc |-> MaxRetriesExceededError("create_playlist", ServiceMaxAttempts)],
          [ok |-> FALSE, value |-> NoResult, shell |-> TRUE,
           exc |-> MaxRetriesExceededError("add_tracks_to_playlist", ServiceMaxAttempts)]}

\* os.getenv("YTMUSIC_HEADERS_FILE", "headers_auth.json")
HeadersFiles == {"headers_auth.json", "/tmp/headers.json"}

\* str(e) of what YTMusic(headers_file) raises; "" when it returns.
ClientFailures == {"", "Expecting value: line 1 column 1 (char 0)"}

SetupHint == "Please run: poetry run spotify-to-ytmusic setup-ytmusic"

\* YouTubeMusicService(): ConfigurationError when the headers file does not
\* exist, and when YTMusic(headers_file) raises anything.
YouTubeMusicServiceInit(headers_file, exists, failure) ==
    IF ~exists
    THEN Raises(ConfigurationError(
             "YouTube Music headers file not found: " \o headers_file \o "\n"
             \o SetupHint))
    ELSE IF failure # ""
    THEN Raises(ConfigurationError(
             "Failed to initialize YouTube Music client: " \o failure \o "\n"
             \o "Your headers file may be corrupted or expired.\n" \o SetupHint))
    ELSE Returns("ok")

\* What YouTubeMusicService() gives get_ytmusic_service.
ServiceAnswers ==
    {YouTubeMusicServiceInit(f, e, x) :
        f \in HeadersFiles, e \in BOOLEAN, x \in ClientFailures}

Limits == {None} \cup {Val(n) : n \in (0 - MaxLimit)..MaxLimit}

NameArguments == {"mix 1", "MIX 2", "Missing"}

CommandLines ==
    {CommandStart(cmd, FALSE, None, "") : cmd \in {"list-playlists", "list-albums"}}
    \cup {CommandStart("migrate-playlist", b, None, n) :
            b \in BOOLEAN, n \in NameArguments}
    \cup {CommandStart("migrate-all", b, l, "") : b \in BOOLEAN, l \in Limits}

CliInit ==
    /\ mode = "cli"
    /\ cli \in CommandLines
    /\ pol = IdlePolicy
    /\ rs = IdleWrapper
    /\ hist = <<>>
    /\ cat = IdleCat
    /\ mt = IdleMatch
    /\ mg = IdleMigrate

\* click.confirm("This will migrate ALL your playlists. Continue?")
CliConfirm ==
    /\ mode = "cli"
    /\ cli.pc = "confirm"
    /\ \E answer \in BOOLEAN :
          cli' = IF answer THEN [cli EXCEPT !.pc = "spotify"]
                 ELSE Exit([cli EXCEPT !.cancelled = TRUE], 0)
    /\ UNCHANGED <<mode, pol, rs, hist, cat, mt, mg>>

CliSpotifyService ==
    /\ mode = "cli"
    /\ cli.pc = "spotify"
    /\ \E credentials \in BOOLEAN : cli' = get_spotify_service(cli, credentials)
    /\ UNCHANGED <<mode, pol, rs, hist, cat, mt, mg>>

CliYtmusicService ==
    /\ mode = "cli"
    /\ cli.pc = "ytmusic"
    /\ \E outcome \in ServiceAnswers : cli' = get_ytmusic_service(cli, outcome)
    /\ UNCHANGED <<mode, pol, rs, hist, cat, mt, mg>>

\* list_playlists: spotify.get_user_info()
ListPlaylistsUserInfo ==
    /\ mode = "cli"
    /\ cli.pc = "user_info"
    /\ \E outcome \in CallAnswers :
          cli' = IF outcome.ok THEN [cli EXCEPT !.pc = "summary"]
                 ELSE Handler(cli, outcome.exc)
    /\ UNCHANGED <<mode, pol, rs, hist, cat, mt, mg>>

\* list_playlists: spotify.get_user_playlists_summary() raises
\* AttributeError, which the last except clause reports.
ListPlaylistsSummary ==
    /\ mode = "cli"
    /\ cli.pc = "summary"
    /\ cli' = Handler(cli, SummaryMissing)
    /\ UNCHANGED <<mode, pol, rs, hist, cat, mt, mg>>

\* list_albums: spotify.get_saved_albums() and the albums printed.
ListAlbums ==
    /\ mode = "cli"
    /\ cli.pc = "albums"
    /\ \E outcome \in CallAnswers :
          cli' = IF outcome.ok THEN Exit(cli, 0) ELSE Handler(cli, outcome.exc)
    /\ UNCHANGED <<mode, pol, rs, hist, cat, mt, mg>>

\* migrate_playlist: spotify.get_playlist_by_name(playlist_name)
MigratePlaylistFind ==
    /\ mode = "cli"
    /\ cli.pc = "find"
    /\ \E source \in SourceAnswers :
          cli' = AfterFind([cli EXCEPT !.source_fail = source.fail, !.source_exc = source.exc],
                           get_playlist_by_name(source, cli.name))
    /\ UNCHANGED <<mode, pol, rs, hist, cat, mt, mg>>

\* migrate_playlist: ytmusic.migrate_playlist(playlist) and the result printed.
MigratePlaylistRun ==
    /\ mode = "cli"
    /\ cli.pc = "migrate"
    /\ \E outcome \in MigrateAnswers(cli.playlists[Len(cli.migrated) + 1]) :
          LET after == AfterMigrate(cli, outcome) IN
          cli' = IF after.pc \in {"exited", "raised"} THEN after
                 ELSE MigratePlaylistDone(after)
    /\ UNCHANGED <<mode, pol, rs, hist, cat, mt, mg>>

\* migrate_all: spotify.get_user_playlists() and the limit applied.
MigrateAllListing ==
    /\ mode = "cli"
    /\ cli.pc = "listing"
    /\ \E source \in SourceAnswers :
          cli' = AfterListing([cli EXCEPT !.source_fail = source.fail, !.source_exc = source.exc],
                              get_user_playlists(source))
    /\ UNCHANGED <<mode, pol, rs, hist, cat, mt, mg>>

\* migrate_all: one iteration of the loop over the playlists.
MigrateAllNext ==
    /\ mode = "cli"
    /\ cli.pc = "loop"
    /\ Len(cli.migrated) < Len(cli.playlists)
    /\ \E outcome \in MigrateAnswers(cli.playlists[Len(cli.migrated) + 1]) :
          cli' = AfterMigrate(cli, outcome)
    /\ UNCHANGED <<mode, pol, rs, hist, cat, mt, mg>>

\* migrate_all: the loop is over.
MigrateAllSummary ==
    /\ mode = "cli"
    /\ cli.pc = "loop"
    /\ Len(cli.migrated) = Len(cli.playlists)
    /\ cli' = Summary(cli)
    /\ UNCHANGED <<mode, pol, rs, hist, cat, mt, mg>>

CliNext ==
    \/ CliConfirm \/ CliSpotifyService \/ CliYtmusicService
    \/ ListPlaylistsUserInfo \/ ListPlaylistsSummary \/ ListAlbums
    \/ MigratePlaylistFind \/ MigratePlaylistRun
    \/ MigrateAllListing \/ MigrateAllNext \/ MigrateAllSummary

SpecCli == CliInit /\ [][CliNext]_vars

----------------------------------------------------------------------------
(* Properties of the retry wrapper, checked under SpecRetry. *)

RECURSIVE Pow(_, _)
Pow(b, n) == IF n = 0 THEN 1 ELSE b * Pow(b, n - 1)

\* The failure is one the wrapper handles: its class is in the retryable set
\* or in the rate-limit class of the policy.
Retried(p, o) ==
    ~o.ok /\ (IsInstance(o.exc, p.rate_limit_exceptions) \/ IsInstance(o.exc, p.exceptions))

\* The failure is handled by the rate-limit handler and carries a usable hint.
HintUsed(p, o) ==
    /\ ~o.ok
    /\ IsInstance(o.exc, p.rate_limit_exceptions)
    /\ o.exc.retry_after.tag = "val"
    /\ o.exc.retry_after.v > 0

AllRetried(p, h, k) == \A i \in 1..k : Retried(p, h[i])

\* C3: with max_attempts >= 1, a function that raises handled failures on its
\* first k invocations (k < max_attempts) and then returns makes the wrapper
\* return that value after exactly k + 1 invocations, and the function is never
\* invoked more than max_attempts times.
C3_SucceedsAfterKFailures ==
    (mode = "retry" /\ pol.max_attempts >= 1) =>
        /\ rs.calls = Len(hist)
        /\ rs.calls <= pol.max_attempts
        /\ \A k \in 0..(pol.max_attempts - 1) :
              (Len(hist) > k /\ AllRetried(pol, hist, k) /\ hist[k + 1].ok) =>
                  /\ rs.status = "returned"
                  /\ rs.value = hist[k + 1].value
                  /\ rs.calls = k + 1

C3_Witness ==
    /\ mode = "retry"
    /\ pol.max_attempts = DefaultMaxAttempts
    /\ Len(hist) = pol.max_attempts
    /\ AllRetried(pol, hist, pol.max_attempts - 1)
    /\ hist[pol.max_attempts].ok
    /\ rs.status = "returned"
    /\ rs.value = "success"

\* C4: with max_attempts >= 1, a function that raises a handled failure on
\* every invocation makes the wrapper raise MaxRetriesExceededError with the
\* function's name and attempts = max_attempts, the last failure as its cause,
\* after exactly max_attempts invocations and max_attempts - 1 waits.
C4_ExhaustionRaises ==
    (mode = "retry" /\ pol.max_attempts >= 1 /\ AllRetried(pol, hist, Len(hist))) =>
        /\ Len(hist) <= pol.max_attempts
        /\ Len(hist) < pol.max_attempts =>
              rs.status = "running" /\ Len(rs.waits) = Len(hist)
        /\ Len(hist) = pol.max_attempts =>
              /\ rs.status = "raised"
              /\ rs.exc.kind = "MaxRetriesExceededError"
              /\ rs.exc.operation = pol.name
              /\ rs.exc.attempts = pol.max_attempts
              /\ rs.cause = hist[pol.max_attempts].exc
              /\ rs.calls = pol.max_attempts
              /\ Len(rs.waits) = pol.max_attempts - 1

C4_Witness ==
    /\ mode = "retry"
    /\ pol.max_attempts = DefaultMaxAttempts
    /\ Len(hist) = pol.max_attempts
    /\ AllRetried(pol, hist, Len(hist))
    /\ rs.status = "raised"
    /\ rs.exc.attempts = DefaultMaxAttempts
    /\ rs.cause.kind = "RateLimitError"
    /\ Len(rs.waits) = 2

\* C5: a failure whose class is neither in the retryable set nor in the
\* rate-limit class leaves the wrapper at once, as it is: raised on the first
\* invocation, the function has been invoked once, nothing was waited for and
\* the caller gets that very failure, with no cause chained to it.
C5_NonRetryablePropagates ==
    (mode = "retry" /\ pol.max_attempts >= 1 /\ Len(hist) > 0
        /\ ~hist[Len(hist)].ok /\ ~Retried(pol, hist[Len(hist)])) =>
        /\ rs.status = "raised"
        /\ rs.exc = hist[Len(hist)].exc
        /\ rs.cause = NoExc
        /\ rs.calls = Len(hist)
        /\ Len(rs.waits) = Len(hist) - 1
        /\ Len(hist) = 1 => (rs.calls = 1 /\ rs.waits = <<>> /\ rs.attempt = 0)

C5_Witness ==
    /\ mode = "retry"
    /\ pol.max_attempts = DefaultMaxAttempts
    /\ pol.exceptions = {"NetworkError"}
    /\ Len(hist) = 1
    /\ ~hist[1].ok
    /\ hist[1].exc.kind = "ValueError"
    /\ rs.status = "raised"
    /\ rs.exc.kind = "ValueError"
    /\ rs.calls = 1

\* C6: when a failure of the rate-limit class carries a positive retry-after
\* hint h and attempts remain, the wait before the next attempt is exactly h,
\* whatever the current delay and max_delay are.
C6_HintIsTheWait ==
    mode = "retry" =>
        \A k \in 1..Len(hist) :
            (HintUsed(pol, hist[k]) /\ k < pol.max_attempts) =>
                /\ Len(rs.waits) >= k
                /\ rs.waits[k] = hist[k].exc.retry_after.v

C6_Witness ==
    /\ mode = "retry"
    /\ Len(hist) = 2
    /\ Len(rs.waits) = 2
    /\ HintUsed(pol, hist[2])
    /\ hist[2].exc.retry_after.v > pol.max_delay
    /\ rs.waits[2] = hist[2].exc.retry_after.v
    /\ rs.waits[2] # Min(pol.initial_delay * pol.exponential_base, pol.max_delay)

\* C7: in a run where no failure's hint is used, the wait after the k-th
\* failure (1 <= k < max_attempts) is
\* min(initial_delay * exponential_base^(k-1), max_delay), so never above
\* max_delay.
C7_GeometricCappedWait ==
    (mode = "retry" /\ \A i \in 1..Len(hist) : ~HintUsed(pol, hist[i])) =>
        \A k \in 1..Len(hist) :
            (Retried(pol, hist[k]) /\ k < pol.max_attempts) =>
                /\ Len(rs.waits) >= k
                /\ rs.waits[k] =
                      Min(pol.initial_delay * Pow(pol.exponential_base, k - 1),
                          pol.max_delay)
                /\ rs.waits[k] <= pol.max_delay

C7_Witness ==
    /\ mode = "retry"
    /\ \A i \in 1..Len(hist) : ~HintUsed(pol, hist[i])
    /\ pol.initial_delay = DefaultInitialDelay
    /\ pol.exponential_base = 3
    /\ pol.max_delay = 2
    /\ rs.waits = <<1, 2>>

\* The decorator arguments of the migration path: the three retryable
\* classes and the default rate-limit class.
MigrationPathPolicy ==
    /\ mode = "retry"
    /\ pol.exceptions = ServiceExceptions
    /\ pol.rate_limit_exceptions = DefaultRateLimitExceptions

\* C18: under the decorator arguments of the migration path a
\* MaxRetriesExceededError is never caught and retried: one raised by the
\* wrapped operation leaves the wrapper as it is, with no further invocation
\* and no wait after it, and one raised by the wrapper on exhaustion ends
\* the call with max_attempts invocations made.
C18_ExhaustionIsTerminal ==
    MigrationPathPolicy =>
        /\ \A k \in 1..Len(hist) :
              (~hist[k].ok /\ hist[k].exc.kind = "MaxRetriesExceededError") =>
                  /\ k = Len(hist)
                  /\ rs.status = "raised"
                  /\ rs.exc = hist[k].exc
                  /\ rs.calls = k
                  /\ Len(rs.waits) = k - 1
        /\ (rs.status = "raised" /\ rs.exc.kind = "MaxRetriesExceededError") =>
              /\ rs.calls = Len(hist)
              /\ rs.exc.operation = pol.name => rs.calls = pol.max_attempts

\* After one retried network failure the wrapped operation raises a
\* MaxRetriesExceededError of its own, which leaves the wrapper untouched.
C18_Witness ==
    /\ MigrationPathPolicy
    /\ pol.max_attempts = ServiceMaxAttempts
    /\ Len(hist) = 2
    /\ hist[1].exc.kind = "NetworkError"
    /\ hist[2].exc = MaxRetriesExceededError("inner", DefaultMaxAttempts)
    /\ rs.status = "raised"
    /\ rs.exc = MaxRetriesExceededError("inner", DefaultMaxAttempts)
    /\ rs.calls = 2

----------------------------------------------------------------------------
(* Properties of the categorizer, checked under SpecCategorize.  The       *)
(* indicator sets below are the ones the specification lists.              *)

SpecRateLimitIndicators ==
    {"rate limit", "too many requests", "429", "quota exceeded", "throttle"}

SpecNetworkIndicators ==
    {"connection", "timeout", "network", "dns", "unreachable", "socket"}

MentionsRateLimit(msg) ==
    LET text == Lower(msg) IN \E w \in SpecRateLimitIndicators : Contains(text, w)

MentionsNetwork(msg) ==
    LET text == Lower(msg) IN \E w \in SpecNetworkIndicators : Contains(text, w)

\* C8: whatever the failure's message and fields and whatever the service,
\* the categorizer returns an error of exactly one of the kinds RateLimitError,
\* NetworkError, APIError, and APIError when the message has no indicator.
C8_CategorizerTotal ==
    (mode = "categorize" /\ cat.done) =>
        /\ cat.result.kind \in {"RateLimitError", "NetworkError", "APIError"}
        /\ (~MentionsRateLimit(cat.given.msg) /\ ~MentionsNetwork(cat.given.msg)) =>
              cat.result.kind = "APIError"
        /\ cat.result.kind = "APIError" =>
              (~MentionsRateLimit(cat.given.msg) /\ ~MentionsNetwork(cat.given.msg))

C8_Witness ==
    /\ mode = "categorize"
    /\ cat.done
    /\ cat.given.msg = "server error"
    /\ cat.given.retry_after = None
    /\ cat.given.status_code = Absent
    /\ cat.given.http_status = Val(503)
    /\ cat.result.kind = "APIError"

\* C9: a message with a rate-limit indicator is categorized RateLimitError
\* even when it has a network indicator too; NetworkError is produced exactly
\* when a network indicator is present and no rate-limit indicator is.
C9_RateLimitBeforeNetwork ==
    (mode = "categorize" /\ cat.done) =>
        /\ MentionsRateLimit(cat.given.msg) => cat.result.kind = "RateLimitError"
        /\ cat.result.kind = "NetworkError" <=>
              (MentionsNetwork(cat.given.msg) /\ ~MentionsRateLimit(cat.given.msg))

C9_Witness ==
    /\ mode = "categorize"
    /\ cat.done
    /\ cat.given.msg = "Connection429"
    /\ MentionsNetwork(cat.given.msg)
    /\ MentionsRateLimit(cat.given.msg)
    /\ cat.result.kind = "RateLimitError"

----------------------------------------------------------------------------
(* Properties of the matcher, checked under SpecMatch.  The acceptance     *)
(* test is written here as the specification words it.                     *)

\* Some track artist, lower-cased, is a substring of the candidate's
\* lower-cased, space-joined artist names.
SpecArtistTest(track, candidate) ==
    \E i \in 1..Len(track.artists) :
        Contains(Lower(Join(" ", candidate.artists)), Lower(track.artists[i]))

\* The candidates of a result list that pass the test, by position.
SpecAccepted(track, results) ==
    {k \in 1..Len(results) : SpecArtistTest(track, results[k])}

\* C10: when the track carries an identifier, the first search is by that
\* identifier with limit 3 and any name search comes after it; when that
\* search answers with a candidate passing the artist test, search_track
\* returns at once the id of the first such candidate in result order,
\* whatever the candidates' titles, and makes no further search.
C10_IdentifierPhaseFirstMatch ==
    (mode = "match" /\ HasIsrc(mt.track) /\ Len(mt.searches) >= 1) =>
        /\ mt.searches[1] = [query |-> mt.track.isrc, filter |-> "songs", limit |-> 3]
        /\ \A k \in 2..Len(mt.searches) :
              mt.searches[k].query = search_query(mt.track)
        /\ LET accepted == SpecAccepted(mt.track, mt.answers[1].results) IN
           (mt.answers[1].ok /\ accepted # {}) =>
               /\ mt.status = "done"
               /\ Len(mt.searches) = 1
               /\ \E k \in accepted :
                     /\ \A j \in accepted : k <= j
                     /\ mt.out = Returns(mt.answers[1].results[k].videoId)

\* The first candidate has the right artist and another title, the second
\* one matches on both: the first one's id is returned.
C10_Witness ==
    /\ mode = "match"
    /\ mt.track = [name |-> "Song", artists |-> <<"Artist">>, isrc |-> "USRC17607839"]
    /\ mt.status = "done"
    /\ Len(mt.answers) = 1
    /\ mt.answers[1].ok
    /\ Len(mt.answers[1].results) = 2
    /\ mt.answers[1].results[1].title = "Different"
    /\ mt.answers[1].results[1].artists = <<"ARTIST">>
    /\ mt.answers[1].results[2].title = "Song (Remastered)"
    /\ mt.answers[1].results[2].artists = <<"The Artist">>
    /\ mt.out = Returns("isrc-1")

\* The name phase's test as the specification words it: the lower-cased
\* track name is in the lower-cased title or the other way round, and some
\* lower-cased track artist is in the candidate's joined artist string.
SpecNameTest(track, candidate) ==
    /\ \/ Contains(Lower(candidate.title), Lower(track.name))
       \/ Contains(Lower(track.name), Lower(candidate.title))
    /\ SpecArtistTest(track, candidate)

\* The name search has been made and answered: it is the last search.
NameSearchAnswered ==
    /\ mode = "match"
    /\ mt.status = "done"
    /\ Len(mt.searches) = (IF HasIsrc(mt.track) THEN 2 ELSE 1)
    /\ mt.answers[Len(mt.answers)].ok

\* C11: the name search asks for the top 5 songs of the track's search
\* query, and when a candidate of its answer passes the title-and-artist
\* test, search_track returns the id of the first such candidate in result
\* order.
C11_NamePhaseFirstValidated ==
    NameSearchAnswered =>
        LET n == Len(mt.searches)
            results == mt.answers[n].results
            passing == {k \in 1..Len(results) : SpecNameTest(mt.track, results[k])}
        IN /\ mt.searches[n] = [query |-> search_query(mt.track),
                                filter |-> "songs", limit |-> 5]
           /\ passing # {} =>
                 \E k \in passing :
                     /\ \A j \in passing : k <= j
                     /\ mt.out = Returns(results[k].videoId)

\* "Song" by "Artist": the first candidate has the artist and another
\* title, the second is "Song (Remastered)" by "The Artist" and is returned.
C11_Witness ==
    /\ NameSearchAnswered
    /\ mt.track = [name |-> "Song", artists |-> <<"Artist">>, isrc |-> ""]
    /\ Len(mt.answers[1].results) = 2
    /\ mt.answers[1].results[1].title = "Different"
    /\ mt.answers[1].results[1].artists = <<"ARTIST">>
    /\ mt.answers[1].results[2].title = "Song (Remastered)"
    /\ mt.answers[1].results[2].artists = <<"The Artist">>
    /\ mt.out = Returns("name-2")

\* C12: search_track reports no match exactly when the name search was made
\* and returned zero results; when it returned at least one result and no
\* candidate passed the title-and-artist test, the id of its very first
\* result is returned.
C12_FallbackToFirstResult ==
    (mode = "match" /\ mt.status = "done") =>
        LET results == mt.answers[Len(mt.answers)].results IN
        /\ mt.out = Returns(NoneStr) <=> (NameSearchAnswered /\ Len(results) = 0)
        /\ ( /\ NameSearchAnswered
             /\ Len(results) >= 1
             /\ \A k \in 1..Len(results) : ~SpecNameTest(mt.track, results[k]) )
           => mt.out = Returns(results[1].videoId)

\* The identifier search found nobody's artist, the name search returned two
\* results of which none is validated: the first one's id is returned.
C12_Witness ==
    /\ NameSearchAnswered
    /\ mt.track = [name |-> "Song", artists |-> <<"Nobody">>, isrc |-> "USRC17607839"]
    /\ Len(mt.answers[2].results) = 2
    /\ \A k \in 1..2 : ~SpecNameTest(mt.track, mt.answers[2].results[k])
    /\ mt.out = Returns("name-1")

\* The ids of the candidates of a result list.
CandidateIds(results) == {results[k].videoId : k \in 1..Len(results)}

\* The identifier search was answered and validated none of its candidates.
IdentifierPhaseUnvalidated ==
    /\ Len(mt.answers) >= 1
    /\ mt.answers[1].ok
    /\ SpecAccepted(mt.track, mt.answers[1].results) = {}

\* C13: a name search is issued only when the track has no identifier or the
\* identifier search validated no candidate (it returned nothing, or every
\* candidate failed the artist test), and in that case it is issued; when
\* every identifier candidate failed and the name search returns candidates,
\* the id returned is a name-search candidate's, never an identifier
\* candidate's.
C13_NameSearchOnlyAfterPhaseOne ==
    mode = "match" =>
        /\ \A k \in 1..Len(mt.searches) :
              mt.searches[k].query = search_query(mt.track) =>
                  \/ ~HasIsrc(mt.track) /\ k = 1
                  \/ HasIsrc(mt.track) /\ k = 2 /\ IdentifierPhaseUnvalidated
        /\ (mt.status = "done" /\ HasIsrc(mt.track) /\ IdentifierPhaseUnvalidated)
              => Len(mt.searches) = 2
        /\ ( /\ NameSearchAnswered
             /\ HasIsrc(mt.track)
             /\ Len(mt.answers[1].results) >= 1
             /\ Len(mt.answers[2].results) >= 1 )
           => /\ mt.out.ok
              /\ mt.out.value \in CandidateIds(mt.answers[2].results)
              /\ mt.out.value \notin CandidateIds(mt.answers[1].results)

\* The identifier search returned "Song" by someone else, the name search
\* "Song (Remastered)" by "The Artist": the name-search id is returned.
C13_Witness ==
    /\ NameSearchAnswered
    /\ mt.track = [name |-> "Song", artists |-> <<"Artist">>, isrc |-> "USRC17607839"]
    /\ Len(mt.answers[1].results) = 1
    /\ mt.answers[1].results[1].title = "Song"
    /\ mt.answers[1].results[1].artists = <<"Someone", "Else">>
    /\ Len(mt.answers[2].results) = 1
    /\ mt.answers[2].results[1].artists = <<"The Artist">>
    /\ mt.out = Returns("name-1")

----------------------------------------------------------------------------
(* Properties of the migration, checked under Spec.                        *)

\* C1: every MigrationResult that migrate_playlist returns has
\* successful_tracks + len(failed_tracks) + len(skipped_tracks) equal to
\* total_tracks, which is the number of tracks of the source playlist.
C1_ResultCountsAddUp ==
    (mode = "migrate" /\ mg.returned) =>
        /\ mg.result.successful_tracks + Len(mg.result.failed_tracks)
              + Len(mg.result.skipped_tracks) = mg.result.total_tracks
        /\ mg.result.total_tracks = Len(mg.pl.tracks)

\* A result for two tracks, the first resolved and the second one failed
\* for good after its retries.
C1_Witness ==
    /\ mode = "migrate"
    /\ mg.returned
    /\ mg.result.total_tracks = 2
    /\ mg.result.successful_tracks = 1
    /\ mg.result.failed_tracks = <<2>>
    /\ mg.last_log = "unexpected"

\* A track's resolution has ended in a failure: search_track returned no id
\* or raised.
TrackFailed ==
    /\ mode = "migrate"
    /\ mg.pc = "search"
    /\ \/ rs.status = "returned" /\ ~TruthyStr(rs.value)
       \/ rs.status = "raised"

\* What migrate_playlist does with a failed track: the track joins the
\* failed list, nothing is raised, and the next track, if any, is attempted.
FailureIsolated ==
    (TrackFailed /\ mg' # mg) =>
        /\ mg'.failed_tracks = Append(mg.failed_tracks, mg.i)
        /\ mg'.successful_track_ids = mg.successful_track_ids
        /\ mg'.pc # "raised"
        /\ IF mg.i < Len(mg.pl.tracks)
           THEN /\ mg'.pc = "search"
                /\ mg'.i = mg.i + 1
                /\ mg'.attempted = Append(mg.attempted, mg.i + 1)
           ELSE mg'.pc \in {"add", "done"}

\* migrate_playlist raises only what create_playlist or add_tracks_to_playlist
\* raised, and when it returns every track has been attempted, in order, and
\* the failed tracks are in the result.
RaisesOnlyFromCreateOrAdd ==
    /\ (mode = "migrate" /\ mg.pc = "raised") =>
          /\ pol.name \in {"create_playlist", "add_tracks_to_playlist"}
          /\ rs.status = "raised"
          /\ mg.exc = rs.exc
    /\ (mode = "migrate" /\ mg.pc = "done") =>
          /\ mg.returned
          /\ mg.attempted = [k \in 1..Len(mg.pl.tracks) |-> k]
          /\ mg.result.failed_tracks = mg.failed_tracks

\* C2: whenever playlist creation and the bulk insert succeed, a failure of
\* any kind while resolving track i puts track i in the failed list, every
\* later track is still attempted, and migrate_playlist returns a
\* MigrationResult instead of raising.
C2_PerTrackFailureIsolation ==
    []RaisesOnlyFromCreateOrAdd /\ [][FailureIsolated]_vars

\* The first of two tracks exhausted its retries and is in the failed list,
\* nothing was raised, and the second track is being searched for.
C2_Witness ==
    /\ mode = "migrate"
    /\ mg.pc = "search"
    /\ mg.i = 2
    /\ mg.last_log = "unexpected"
    /\ mg.failed_tracks = <<1>>
    /\ mg.attempted = <<1, 2>>
    /\ mg.searches = 1

\* The tracks handled so far that are not in the failed list, in order.
ResolvedTracks ==
    SelectSeq([k \in 1..mg.i |-> k],
              LAMBDA k : \A j \in 1..Len(mg.failed_tracks) : mg.failed_tracks[j] # k)

\* The ids of the resolved tracks, in source-track order.
ResolvedIds == [j \in 1..Len(ResolvedTracks) |-> mg.youtube_id[ResolvedTracks[j]]]

\* add_tracks_to_playlist has been called by migrate_playlist.
InsertRequested == mode = "migrate" /\ pol.name = "add_tracks_to_playlist"

\* C14: migrate_playlist calls add_tracks_to_playlist if and only if at least
\* one track resolved, and then once, after the last track, on the playlist
\* id that creation returned and with exactly the resolved ids in
\* source-track order (as many as successful_tracks); when no track
\* resolved the destination's add-items API is never invoked.
C14_BulkInsertOnlyResolved ==
    mode = "migrate" =>
        /\ mg.pc = "done" =>
              /\ InsertRequested <=> mg.result.successful_tracks >= 1
              /\ Len(mg.items) = (IF mg.result.successful_tracks >= 1 THEN 1 ELSE 0)
              /\ mg.result.successful_tracks = 0 => mg.add_calls = <<>>
              /\ Len(ResolvedIds) = mg.result.successful_tracks
        /\ InsertRequested =>
              /\ mg.pc \in {"add", "done", "raised"}
              /\ mg.i = Len(mg.pl.tracks)
              /\ Len(ResolvedIds) >= 1
              /\ Len(mg.add_calls) = rs.calls
        /\ ~InsertRequested => mg.add_calls = <<>>
        /\ \A k \in 1..Len(mg.add_calls) :
              /\ Len(mg.playlists) = 1
              /\ rs.calls <= ServiceMaxAttempts
              /\ mg.add_calls[k] = [playlist_id |-> mg.yt_playlist_id,
                                    track_ids |-> ResolvedIds]
              /\ mg.yt_playlist_id = "PL1"

\* Two tracks, the first resolved and the second without search results:
\* total 2, successful 1, the second track failed, one insert of one id.
C14_Witness ==
    /\ mode = "migrate"
    /\ mg.pc = "done"
    /\ mg.result.total_tracks = 2
    /\ mg.result.successful_tracks = 1
    /\ mg.result.failed_tracks = <<2>>
    /\ mg.last_log = "not_found"
    /\ mg.add_calls = <<[playlist_id |-> "PL1", track_ids |-> <<"t1-1">>]>>

\* No call of the decorated call on record has failed.
NoFailureOnRecord == \A k \in 1..Len(hist) : hist[k].ok

\* C15: migrating a playlist without tracks, with no destination failure,
\* calls the destination's create-playlist exactly once, makes no search and
\* no add-items call, and returns total_tracks 0, successful_tracks 0, an
\* empty failed list and a success rate of 0.0.
C15_EmptyPlaylist ==
    (mode = "migrate" /\ Len(mg.pl.tracks) = 0 /\ NoFailureOnRecord) =>
        /\ pol.name = "create_playlist"
        /\ mg.pc \in {"create", "done"}
        /\ Len(mg.playlists) = rs.calls
        /\ mg.attempted = <<>>
        /\ mg.searches = 0
        /\ mg.add_calls = <<>>
        /\ mg.pc = "done" =>
              /\ rs.calls = 1
              /\ mg.returned
              /\ mg.result.total_tracks = 0
              /\ mg.result.successful_tracks = 0
              /\ mg.result.failed_tracks = <<>>
              /\ success_rate(mg.result) = FloatZero

\* The result of an empty playlist's migration, created at the first call.
C15_Witness ==
    /\ mode = "migrate"
    /\ Len(mg.pl.tracks) = 0
    /\ NoFailureOnRecord
    /\ mg.pc = "done"
    /\ mg.returned
    /\ rs.calls = 1
    /\ mg.playlists = <<CreateArgs(mg.pl)>>

\* The destination's create-playlist has been called at least once.
CreateCalled ==
    /\ mode = "migrate"
    /\ mg.pc # "create" \/ rs.calls >= 1

\* C16: the destination creation call made by migrate_playlist carries
\* PUBLIC when the source playlist's public flag is true and PRIVATE when it
\* is false, and never another visibility.
C16_VisibilityPropagated ==
    mode = "migrate" =>
        /\ CreateCalled =>
              /\ mg.pl.public => mg.create_args.privacy_status = "PUBLIC"
              /\ ~mg.pl.public => mg.create_args.privacy_status = "PRIVATE"
        /\ \A k \in 1..Len(mg.playlists) :
              /\ mg.playlists[k].privacy_status \in {"PUBLIC", "PRIVATE"}
              /\ mg.playlists[k].privacy_status = "PUBLIC" <=> mg.pl.public

\* A public playlist has been created as PUBLIC.
C16_Witness ==
    /\ mode = "migrate"
    /\ mg.pl.public
    /\ mg.pc = "done"
    /\ Len(mg.playlists) = 1
    /\ mg.playlists[1].privacy_status = "PUBLIC"
    /\ mg.create_args.privacy_status = "PUBLIC"

\* The destination has just failed with a configuration or authentication
\* failure.
SetupFailure ==
    /\ mode = "migrate"
    /\ mg.dest_exc.kind \in {"ConfigurationError", "AuthenticationError"}

\* C17: when a destination call fails with a ConfigurationError or an
\* AuthenticationError, the operation has been invoked exactly once, no wait
\* occurs, and that failure is what the decorated call raises.
C17_SetupFailuresNeverRetried ==
    SetupFailure =>
        /\ rs.calls = 1
        /\ rs.waits = <<>>
        /\ rs.status = "raised"
        /\ rs.exc = mg.dest_exc

\* create_playlist or add_tracks_to_playlist has raised to migrate_playlist.
CreateOrAddRaised ==
    /\ mode = "migrate"
    /\ mg.pc \in {"create", "add"}
    /\ rs.status = "raised"

\* What migrate_playlist does then: the failure leaves it and no result is
\* returned.
FailurePropagates ==
    (CreateOrAddRaised /\ mg' # mg) =>
        /\ mg'.pc = "raised"
        /\ mg'.exc = rs.exc
        /\ ~mg'.returned
        /\ mg'.add_calls = mg.add_calls
        /\ mg'.attempted = mg.attempted

\* create_playlist and add_tracks_to_playlist raise by exhaustion only, and
\* once the failure has left migrate_playlist there is no result, and after
\* a failed creation nothing was searched or inserted.
PropagatedFailure ==
    /\ CreateOrAddRaised =>
          /\ rs.exc = MaxRetriesExceededError(pol.name, ServiceMaxAttempts)
          /\ rs.calls = ServiceMaxAttempts
    /\ (mode = "migrate" /\ mg.pc = "raised") =>
          /\ ~mg.returned
          /\ mg.result = NoResult
          /\ mg.exc = MaxRetriesExceededError(pol.name, ServiceMaxAttempts)
          /\ pol.name = "create_playlist" =>
                /\ mg.attempted = <<>>
                /\ mg.searches = 0
                /\ mg.add_calls = <<>>
                /\ mg.playlists = <<>>

\* C19: when playlist creation or the bulk insert still fails after its
\* retries, the failure propagates out of migrate_playlist and no
\* MigrationResult is returned; nothing happens afterwards, so that after a
\* failed creation no track is searched and nothing is inserted.
C19_CreateAndInsertFailuresPropagate ==
    /\ []PropagatedFailure
    /\ [][FailurePropagates /\ mg.pc # "raised"]_vars

\* The creation of a playlist of two tracks failed three times.
C19_Witness ==
    /\ mode = "migrate"
    /\ mg.pc = "raised"
    /\ pol.name = "create_playlist"
    /\ Len(mg.pl.tracks) = 2
    /\ rs.calls = 3
    /\ mg.exc.kind = "MaxRetriesExceededError"
    /\ mg.create_args = CreateArgs(mg.pl)

\* search_track has returned an id for the current track.
TrackResolved ==
    /\ mode = "migrate"
    /\ mg.pc = "search"
    /\ rs.status = "returned"
    /\ TruthyStr(rs.value)

\* A step writes a track's youtube_id only for the track just resolved, to
\* the id that joins the list for the bulk insert, and that track is then
\* done with; the playlist and the other fields of its tracks stay as given.
WritesOnlyResolved ==
    mode = "migrate" =>
        /\ mg'.pl = mg.pl
        /\ \A k \in 1..Len(mg.pl.tracks) :
              mg'.youtube_id[k] # mg.youtube_id[k] =>
                  /\ TrackResolved
                  /\ k = mg.i
        /\ (TrackResolved /\ mg' # mg) =>
              /\ mg'.youtube_id[mg.i] = rs.value
              /\ mg'.successful_track_ids = Append(mg.successful_track_ids, rs.value)
              /\ mg'.failed_tracks = mg.failed_tracks
              /\ mg'.i # mg.i \/ mg'.pc \in {"add", "done"}

\* Failed tracks keep their youtube_id, resolved ones hold the id that the
\* bulk insert is given.
FailedTracksUntouched ==
    mode = "migrate" =>
        /\ \A j \in 1..Len(mg.failed_tracks) :
              mg.youtube_id[mg.failed_tracks[j]]
                  = mg.pl.tracks[mg.failed_tracks[j]].youtube_id
        /\ \A k \in (mg.i + 1)..Len(mg.pl.tracks) :
              mg.youtube_id[k] = mg.pl.tracks[k].youtube_id
        /\ mg.pc \in {"add", "done", "raised"} => ResolvedIds = mg.successful_track_ids
        /\ \A c \in 1..Len(mg.add_calls) : mg.add_calls[c].track_ids = ResolvedIds

\* C20: migrate_playlist writes a track's youtube_id only when the track
\* resolved, once, to the id later passed to the bulk insert; a track in the
\* failed list has its youtube_id and its other fields as before the call.
C20_DestinationIdWrittenOnce ==
    []FailedTracksUntouched /\ [][WritesOnlyResolved]_vars

\* The first track had an id from before and failed, the second resolved:
\* the first keeps its old id, the second holds the id that was inserted.
C20_Witness ==
    /\ mode = "migrate"
    /\ mg.pc = "done"
    /\ Len(mg.pl.tracks) = 2
    /\ mg.pl.tracks[1].youtube_id = "old-id"
    /\ mg.failed_tracks = <<1>>
    /\ mg.youtube_id = <<"old-id", "t2-1">>
    /\ mg.items = <<[playlist_id |-> "PL1", track_ids |-> <<"t2-1">>]>>

----------------------------------------------------------------------------
(* The success path of the retry wrapper, checked under SpecRetry. *)

\* The invocation just made returned a value.
JustSucceeded == Len(hist') = Len(hist) + 1 /\ hist'[Len(hist')].ok

\* What the wrapper does with a successful invocation: it returns the value
\* as it is and touches neither the waits, the delay nor the attempt counter.
ReturnsUntouched ==
    /\ rs'.status = "returned"
    /\ rs'.value = hist'[Len(hist')].value
    /\ rs'.waits = rs.waits
    /\ rs'.delay = rs.delay
    /\ rs'.attempt = rs.attempt
    /\ rs'.calls = rs.calls + 1

\* C21: when the wrapped operation succeeds on an invocation, the wrapper
\* returns at once: no wait follows that invocation (the waits are those of
\* the failures before it), no further invocation is made, and the value
\* returned is exactly the operation's value, whatever it is.
C21_SuccessReturnsAtOnce ==
    /\ [](mode = "retry" /\ Len(hist) > 0 /\ hist[Len(hist)].ok =>
            /\ rs.status = "returned"
            /\ rs.value = hist[Len(hist)].value
            /\ rs.calls = Len(hist)
            /\ Len(rs.waits) = Len(hist) - 1)
    /\ [](mode = "retry" /\ rs.status = "returned" =>
            Len(hist) > 0 /\ hist[Len(hist)].ok)
    /\ [][mode = "retry" /\ JustSucceeded => ReturnsUntouched]_vars
    /\ [][mode = "retry" /\ rs.status = "returned" => UNCHANGED vars]_vars

\* A success on the second invocation: one wait (that of the first failure)
\* and the value handed back as it was returned.
C21_Witness ==
    /\ mode = "retry"
    /\ pol.max_attempts = DefaultMaxAttempts
    /\ Len(hist) = 2
    /\ ~hist[1].ok
    /\ hist[2] = Returns("success")
    /\ rs.status = "returned"
    /\ rs.value = "success"
    /\ rs.calls = 2
    /\ Len(rs.waits) = 1

----------------------------------------------------------------------------
(* The order of the calls of one migrate_playlist, checked under Spec. *)

\* The tracks 1..n in source order.
InSourceOrder(n) == [k \in 1..n |-> k]

\* The entries of a list of track indices are in source order.
KeepsSourceOrder(l) == \A a, b \in 1..Len(l) : a < b => l[a] < l[b]

\* Where migrate_playlist is, and what that says about the calls made so far.
CallsInOrder ==
    /\ mg.attempted = InSourceOrder(mg.i)
    /\ mg.i <= Len(mg.pl.tracks)
    /\ KeepsSourceOrder(mg.failed_tracks)
    /\ \A k \in 1..Len(mg.failed_tracks) : mg.failed_tracks[k] <= mg.i
    /\ Len(mg.successful_track_ids) + Len(mg.failed_tracks) \in {mg.i - 1, mg.i}
    /\ mg.pc = "create" =>
          mg.i = 0 /\ mg.searches = 0 /\ mg.add_calls = <<>> /\ mg.yt_playlist_id = NoneStr
    /\ (mg.i > 0 \/ mg.searches > 0 \/ mg.pc = "search") =>
          /\ Len(mg.playlists) = 1
          /\ mg.yt_playlist_id # NoneStr
    /\ mg.pc = "search" =>
          /\ mg.i >= 1
          /\ mg.add_calls = <<>>
          /\ Len(mg.successful_track_ids) + Len(mg.failed_tracks) = mg.i - 1
    /\ (mg.pc = "add" \/ mg.add_calls # <<>>) =>
          /\ mg.i = Len(mg.pl.tracks)
          /\ Len(mg.successful_track_ids) + Len(mg.failed_tracks) = mg.i

\* A step that starts the next track: the decorated search of the track before
\* (or the creation) is over, all its invocations and waits included.
TracksOneAtATime ==
    /\ mg'.i # mg.i =>
          /\ mg'.i = mg.i + 1
          /\ mg.pc \in {"create", "search"}
          /\ rs.status \in {"returned", "raised"}
          /\ rs'.status = "running" /\ rs'.calls = 0 /\ rs'.waits = <<>>
          /\ mg'.searches = 0
    /\ mg'.searches > mg.searches =>
          mg.pc = "search" /\ mg'.pc = "search" /\ mg'.i = mg.i /\ rs.status = "running"
    /\ mg'.playlists # mg.playlists => mg.pc = "create" /\ mg.i = 0
    /\ mg'.add_calls # mg.add_calls => mg.pc = "add" /\ mg.i = Len(mg.pl.tracks)
    /\ Len(mg'.failed_tracks) >= Len(mg.failed_tracks)
    /\ SubSeq(mg'.failed_tracks, 1, Len(mg.failed_tracks)) = mg.failed_tracks

\* C22: within one migrate_playlist the calls are strictly ordered: the
\* playlist is created before the first search, the tracks are resolved one at
\* a time in source order (every invocation and wait for one track is over
\* before the next track's first search), the insert is requested only after
\* the last track has been attempted, and the failed list is in source order.
C22_CallsStrictlyOrdered ==
    /\ [](mode = "migrate" => CallsInOrder)
    /\ [][mode = "migrate" => TracksOneAtATime]_vars

\* A full playlist: the first track failed, the others were resolved, then
\* the insert was requested once.
C22_Witness ==
    /\ mode = "migrate"
    /\ mg.pc = "add"
    /\ Len(mg.pl.tracks) = MaxTracks
    /\ mg.attempted = InSourceOrder(MaxTracks)
    /\ mg.failed_tracks = <<1>>
    /\ Len(mg.successful_track_ids) = MaxTracks - 1
    /\ Len(mg.add_calls) = 1
    /\ Len(mg.playlists) = 1

----------------------------------------------------------------------------
(* The skipped list, checked under Spec. *)

\* C23: the skipped list of every MigrationResult that migrate_playlist
\* returns is empty, whatever the playlist and whatever happened to each of
\* its tracks (resolved, not found, failed after retries).
C23_SkippedAlwaysEmpty ==
    mode = "migrate" =>
        /\ mg.skipped_tracks = <<>>
        /\ mg.returned =>
              /\ mg.result.skipped_tracks = <<>>
              /\ mg.result.total_tracks =
                    mg.result.successful_tracks + Len(mg.result.failed_tracks)

\* A result with one track resolved and one without any search result: the
\* second is on the failed list, the skipped list is empty.
C23_Witness ==
    /\ mode = "migrate"
    /\ mg.returned
    /\ mg.result.total_tracks = 2
    /\ mg.result.successful_tracks = 1
    /\ mg.result.failed_tracks = <<2>>
    /\ mg.last_log = "not_found"
    /\ mg.result.skipped_tracks = <<>>

----------------------------------------------------------------------------
(* The success rate of a MigrationResult, checked under SpecRate.  The     *)
(* rates are Python floats, compared bit for bit.                          *)

\* The float 100.0
Hundred == TrueDiv(100, 1)

\* C24: the success rate of a MigrationResult is 0 when total_tracks is 0 and
\* equals 100 * successful_tracks / total_tracks otherwise; for the results
\* that migrate_playlist returns it lies between 0 and 100 inclusive.
C24_SuccessRate ==
    (mode = "rate" /\ mg.pc = "read") =>
        /\ mg.result.total_tracks = 0 => mg.rate = FloatZero
        /\ mg.result.total_tracks > 0 =>
              mg.rate = TrueDiv(100 * mg.result.successful_tracks, mg.result.total_tracks)
        /\ FloatLeq(FloatZero, mg.rate)
        /\ FloatLeq(mg.rate, Hundred)

----------------------------------------------------------------------------
(* The retry-after hint of a categorized rate limit, checked under         *)
(* SpecCategorize.                                                         *)

\* The attribute holds a number (0 included): a retry-after value.
CarriesValue(a) == a.tag = "val"

\* C25: a RateLimitError produced by the categorizer carries a retry-after
\* value if and only if the original failure exposes one in a retry_after
\* field, and then it is that same value; otherwise it carries none (its
\* retry_after is None).
C25_HintCarriedOver ==
    (mode = "categorize" /\ cat.done /\ cat.result.kind = "RateLimitError") =>
        /\ CarriesValue(cat.result.retry_after) <=> CarriesValue(cat.given.retry_after)
        /\ CarriesValue(cat.given.retry_after) =>
              cat.result.retry_after = cat.given.retry_after
        /\ ~CarriesValue(cat.given.retry_after) => cat.result.retry_after = None

\* A rate-limited failure with retry_after = 30 becomes a RateLimitError with
\* retry_after = 30.
C25_Witness ==
    /\ mode = "categorize"
    /\ cat.done
    /\ cat.result.kind = "RateLimitError"
    /\ cat.given.retry_after = Val(30)
    /\ cat.result.retry_after = Val(30)

----------------------------------------------------------------------------
(* create_playlist under its decorator, checked under Spec: while          *)
(* pol.name = "create_playlist" the wrapper state rs and the record hist   *)
(* are those of the create_playlist call, one destination call per entry.  *)

\* The decorated create_playlist is in progress or was the last call made.
InCreatePlaylist == mode = "migrate" /\ pol.name = "create_playlist"

\* Every destination call made so far by create_playlist has failed.
EveryCreateFailed == \A k \in 1..Len(hist) : ~hist[k].ok

\* C26: create_playlist whose destination call fails on every invocation,
\* whatever the failure (one without any indicator included), invokes it
\* exactly 3 times and then raises MaxRetriesExceededError; when the first
\* destination call succeeds it is invoked exactly once.
C26_CreateRetriedThreeTimes ==
    InCreatePlaylist =>
        /\ rs.calls = Len(hist)
        /\ rs.calls <= 3
        /\ EveryCreateFailed =>
              /\ Len(hist) < 3 => rs.status = "running"
              /\ Len(hist) = 3 =>
                    /\ rs.status = "raised"
                    /\ rs.exc = MaxRetriesExceededError("create_playlist", 3)
                    /\ Len(mg.playlists) = 0
        /\ (rs.status = "raised" /\ EveryCreateFailed) => rs.calls = 3
        /\ (Len(hist) >= 1 /\ hist[1].ok) =>
              /\ rs.calls = 1
              /\ rs.status = "returned"
              /\ Len(mg.playlists) = 1

\* Three destination failures without any indicator ("Server error"), each
\* categorized as APIError, and the exhaustion raised after the third.
C26_Witness ==
    /\ InCreatePlaylist
    /\ Len(hist) = 3
    /\ \A k \in 1..3 : hist[k].exc.kind = "APIError"
    /\ mg.dest_exc.msg = "Server error"
    /\ rs.calls = 3
    /\ rs.status = "raised"
    /\ rs.exc.kind = "MaxRetriesExceededError"

----------------------------------------------------------------------------
(* What a decorated destination call raises once its retries are used up,  *)
(* checked under Spec for search_track, create_playlist and                *)
(* add_tracks_to_playlist.                                                 *)

\* The decorated call has raised after its last permitted invocation.
RetriesUsedUp ==
    /\ mode = "migrate"
    /\ rs.status = "raised"
    /\ rs.calls = pol.max_attempts
    /\ Len(hist) = rs.calls

\* C27: when a destination call is still rate limited after its retries, the
\* failure raised to the caller is a RateLimitError; likewise a NetworkError
\* when network errors persist and an APIError when API errors persist.
C27_PersistentFailureKeepsItsKind ==
    RetriesUsedUp =>
        \A kind \in {"RateLimitError", "NetworkError", "APIError"} :
            hist[Len(hist)].exc.kind = kind => rs.exc.kind = kind

----------------------------------------------------------------------------
(* Properties of the commands, checked under SpecCli. *)

\* The names of the playlists of a list, in order.
NamesOf(playlists) == [k \in 1..Len(playlists) |-> playlists[k].name]

\* The first list is the front of the second.
IsFrontOf(front, whole) ==
    Len(front) <= Len(whole) /\ SubSeq(whole, 1, Len(front)) = front

\* C28: migrate-all with --limit N hands at most N playlists to
\* migrate_playlist, for every integer N supplied (none at all when N is 0 or
\* negative), and those it hands over are the front of the source listing,
\* in order.
C28_LimitBoundsMigrations ==
    (mode = "cli" /\ cli.command = "migrate-all" /\ cli.limit # None) =>
        /\ Len(cli.migrated) <= Max(cli.limit.v, 0)
        /\ IsFrontOf(NamesOf(cli.migrated), NamesOf(cli.listing))

\* No failure surfaced: the services were set up and no collaborator call
\* raised into the command.
NothingSurfaced == cli.setup = "ok" /\ cli.raised = NoExc

\* The command has exited with the given code.
ExitedWith(code) == cli.pc = "exited" /\ cli.exit_code = code

\* C29 as stated: every command exits with code 0 when all of its
\* collaborator calls succeed, and with code 1 when a taxonomy error or an
\* unhandled failure surfaces.
C29_ExitCodeFollowsFailures ==
    (mode = "cli" /\ cli.pc = "exited") =>
        /\ NothingSurfaced => cli.exit_code = 0
        /\ ~NothingSurfaced => cli.exit_code = 1

\* C29, amended: every command exits with code 0 when all of its collaborator
\* calls succeed and, for migrate-playlist, the named playlist is among those
\* the source lists; it exits with code 1 when the named playlist is not
\* found, or a taxonomy error or an unhandled failure surfaces.
C29_ExitCodeNotFoundIncluded ==
    (mode = "cli" /\ cli.pc = "exited") =>
        /\ cli.exit_code \in {0, 1}
        /\ (NothingSurfaced /\ ~cli.not_found) => cli.exit_code = 0
        /\ (~NothingSurfaced \/ cli.not_found) => cli.exit_code = 1
        /\ cli.not_found =>
              /\ cli.command = "migrate-playlist"
              /\ \A k \in 1..Len(cli.listing) : Lower(cli.listing[k].name) # Lower(cli.name)
              /\ cli.migrated = <<>>

\* migrate-playlist for a playlist the source lists: found whatever the case
\* of the letters, migrated, exit code 0.
C29_Witness ==
    /\ mode = "cli"
    /\ cli.command = "migrate-playlist"
    /\ cli.name = "MIX 2"
    /\ NothingSurfaced
    /\ Len(cli.results) = 1
    /\ cli.migrated[1].name = "Mix 2"
    /\ ExitedWith(0)

\* The source's listing call raises a rate-limit failure whenever it is made.
ListingAlwaysRateLimited ==
    /\ mode = "cli"
    /\ cli.source_fail = "listing"
    /\ is_rate_limit_error(cli.source_exc)

\* C30: get_user_playlists retries a listing call that fails with a
\* rate-limit failure: when the call fails on every invocation it is invoked
\* exactly 3 times and MaxRetriesExceededError is raised to the caller.
C30_ListingRetriedThreeTimes ==
    ListingAlwaysRateLimited =>
        /\ cli.listing_calls = 3
        /\ cli.raised.kind = "MaxRetriesExceededError"

----------------------------------------------------------------------------
(* The delay across hint rounds, checked under SpecRetry. *)

\* The step just taken handled a failure by sleeping.
JustWaited == Len(rs'.waits) = Len(rs.waits) + 1

\* C31: the delay is multiplied by the growth factor only in rounds whose
\* wait was taken from the current delay.  A round whose wait was a
\* retry-after hint leaves the delay as it was, so the first wait that is not
\* a hint, after any number of hint waits, is min(initial_delay, max_delay).
C31_HintRoundsKeepDelay ==
    /\ [](mode = "retry" =>
            \A k \in 1..Len(rs.waits) :
                (/\ ~HintUsed(pol, hist[k])
                 /\ \A i \in 1..(k - 1) : HintUsed(pol, hist[i])) =>
                    rs.waits[k] = Min(pol.initial_delay, pol.max_delay))
    /\ [][(mode = "retry" /\ JustWaited) =>
            IF HintUsed(pol, hist'[Len(hist')])
            THEN rs'.delay = rs.delay
            ELSE rs'.delay = rs.delay * pol.exponential_base]_vars

----------------------------------------------------------------------------
(* The rate-limit class and the retryable set, checked under SpecRetry. *)

\* The failure's class is in the rate-limit class of the policy but not in
\* its retryable set.
RateLimitClassOnly(p, o) ==
    /\ ~o.ok
    /\ IsInstance(o.exc, p.rate_limit_exceptions)
    /\ ~IsInstance(o.exc, p.exceptions)

\* C32: the rate-limit class counts only within the retryable set.  A
\* failure whose class is in the rate-limit class but not in the retryable
\* set is not retried: it leaves the wrapper at once and as it is, after one
\* invocation and no wait when it is the first.
C32_RateLimitClassWithinRetryable ==
    (mode = "retry" /\ pol.max_attempts >= 1 /\ Len(hist) > 0
        /\ RateLimitClassOnly(pol, hist[Len(hist)])) =>
        /\ rs.status = "raised"
        /\ rs.exc = hist[Len(hist)].exc
        /\ rs.cause = NoExc
        /\ rs.calls = Len(hist)
        /\ Len(rs.waits) = Len(hist) - 1
        /\ Len(hist) = 1 => (rs.calls = 1 /\ rs.waits = <<>>)

----------------------------------------------------------------------------
(* A retry-after hint of zero, checked under SpecRetry. *)

\* The failure is of the rate-limit class and carries the hint 0.
ZeroHint(p, o) ==
    /\ ~o.ok
    /\ IsInstance(o.exc, p.rate_limit_exceptions)
    /\ o.exc.retry_after = Val(0)

\* C33: a failure of the rate-limit class that carries a retry-after hint of
\* 0 is waited for exactly that long, a wait of length zero, and not for the
\* backoff delay min(current delay, max_delay).
C33_ZeroHintIsTheWait ==
    mode = "retry" =>
        \A k \in 1..Len(hist) :
            (ZeroHint(pol, hist[k]) /\ k < pol.max_attempts) =>
                /\ Len(rs.waits) >= k
                /\ rs.waits[k] = 0

----------------------------------------------------------------------------
(* Categorizing twice, checked under SpecCategorize. *)

\* What the retry wrapper of search_track does with a failure on its first
\* invocation: the clause that catches it and the wait it sleeps.
FirstRound(e) == LoopBody(SearchPolicy, WrapperStart(SearchPolicy), Raises(e))

\* Two failures take the same retry branch with the same wait.
SameRetryHandling(a, b) ==
    /\ CaughtAsRateLimit(SearchPolicy, a) <=> CaughtAsRateLimit(SearchPolicy, b)
    /\ CaughtAsRetryable(SearchPolicy, a) <=> CaughtAsRetryable(SearchPolicy, b)
    /\ FirstRound(a).status = FirstRound(b).status
    /\ FirstRound(a).waits = FirstRound(b).waits

\* The second categorization keeps the kind and the hint of the first, and
\* with them the retry branch and the wait.
KindAndHintKept ==
    /\ cat.second.kind = cat.result.kind
    /\ cat.second.retry_after = cat.result.retry_after
    /\ SameRetryHandling(cat.result, cat.second)

\* C34 as claimed: under a service label without indicator text, applying
\* categorize_api_error to the error it produced yields the same kind with
\* the same retry_after and the same status_code, so the retry branch and
\* the wait are those of the first categorization.
C34_RecategorizationKeepsAll ==
    (mode = "categorize" /\ cat.again) =>
        /\ KindAndHintKept
        /\ cat.second.status_code = cat.result.status_code

\* C34 as it holds: the same, except that a status code of 0 is not kept.
\* The second categorization reads the status with `or`, for which 0 is
\* false, and records None in its place; every other status code, and the
\* absence of one, is kept.
C34_RecategorizationKeepsKind ==
    (mode = "categorize" /\ cat.again) =>
        /\ KindAndHintKept
        /\ cat.result.status_code # Val(0) =>
              cat.second.status_code = cat.result.status_code
        /\ cat.result.status_code = Val(0) => cat.second.status_code = None

\* A failure with a network indicator and one with status 503, categorized
\* twice: the kind and the status are those of the first categorization,
\* though the message has grown by one more label.
C34_Witness ==
    /\ mode = "categorize"
    /\ cat.again
    /\ cat.given.msg = "server error"
    /\ cat.result.kind = "APIError"
    /\ cat.result.status_code = Val(503)
    /\ cat.second.kind = "APIError"
    /\ cat.second.status_code = Val(503)
    /\ cat.second.msg # cat.result.msg

----------------------------------------------------------------------------
(* Failures of the identifier search, checked under Spec. *)

\* search_track is running for the current track.
Searching == mode = "migrate" /\ mg.pc = "search"

\* The step just taken was a destination search.
JustSearched == Searching /\ mg'.pc = "search" /\ mg'.searches = mg.searches + 1

\* The step just taken was the identifier search, and it failed.
IdentifierSearchFailed ==
    /\ JustSearched
    /\ mg.phase = "start"
    /\ HasIsrc(mg.pl.tracks[mg.i])
    /\ mg'.dest_exc # NoExc

\* The step just taken ended an attempt of search_track's body in failure.
AttemptFailed == Len(hist') = Len(hist) + 1 /\ ~hist'[Len(hist')].ok

\* Some answer to the name search would resolve the track.
NameSearchCouldMatch(track) ==
    \E answer \in MgSearchAnswers("t-") : TruthyStr(NamePhase(track, answer).value)

\* search_track has given up on a track with identifier after identifier
\* searches only, each of them failed.
OnlyIdentifierFailures ==
    /\ Searching
    /\ rs.status = "raised"
    /\ HasIsrc(mg.pl.tracks[mg.i])
    /\ mg.searches = Len(hist)
    /\ \A k \in 1..Len(hist) : ~hist[k].ok

\* C35: a failure of the identifier search does not fall through to the name
\* search.  It ends the attempt in failure, and the next attempt starts with
\* the identifier search again.  An attempt makes at most 2 destination
\* searches and one search_track call at most 6.  A track whose identifier
\* search fails every time is recorded as failed and keeps its youtube_id,
\* without a name search ever being made for it.
C35_IdentifierFailureEndsAttempt ==
    /\ [][IdentifierSearchFailed => (AttemptFailed /\ mg'.phase = "start")]_vars
    /\ [][(JustSearched /\ mg.phase = "name") =>
            (Len(hist') = Len(hist) + 1 /\ mg'.phase = "start")]_vars
    /\ [](Searching =>
            /\ mg.phase = "name" => HasIsrc(mg.pl.tracks[mg.i])
            /\ mg.searches <= 2 * rs.calls + (IF mg.phase = "name" THEN 1 ELSE 0)
            /\ rs.calls <= 3
            /\ mg.searches <= 6)
    /\ [][OnlyIdentifierFailures =>
            /\ mg'.failed_tracks = Append(mg.failed_tracks, mg.i)
            /\ mg'.successful_track_ids = mg.successful_track_ids
            /\ mg'.youtube_id = mg.youtube_id]_vars

\* Three attempts for a track whose name search could have matched, each
\* ended by the failure of its identifier search: 3 searches, and
\* search_track gives up.
C35_Witness ==
    /\ OnlyIdentifierFailures
    /\ NameSearchCouldMatch(mg.pl.tracks[mg.i])
    /\ Len(hist) = 3
    /\ mg.searches = 3
    /\ rs.exc.kind = "MaxRetriesExceededError"

----------------------------------------------------------------------------
(* Empty titles and empty artist names, checked under SpecMatch. *)

\* One of the track's artists is the empty string.
HasEmptyArtist(track) == \E i \in 1..Len(track.artists) : track.artists[i] = ""

\* The title test as the specification words it.
SpecTitleTest(track, candidate) ==
    \/ Contains(Lower(candidate.title), Lower(track.name))
    \/ Contains(Lower(track.name), Lower(candidate.title))

\* The results of the last search.
LastResults == mt.answers[Len(mt.answers)].results

\* The id of the first of the candidates at the given positions is what
\* search_track returns.
ReturnsFirstOf(results, positions) ==
    \E k \in positions :
        /\ \A j \in positions : k <= j
        /\ mt.out = Returns(results[k].videoId)

\* C36: in the name phase a candidate whose title is empty or missing passes
\* the title test for every track name, so it is accepted when its artists
\* match and nothing else; and a track artist that is the empty string
\* passes the artist test against every candidate, in the identifier phase
\* (the first candidate is returned) and in the name phase (the first
\* candidate passing the title test is returned).
C36_EmptyTextAlwaysMatches ==
    /\ NameSearchAnswered =>
          LET accepted == {k \in 1..Len(LastResults) :
                              /\ LastResults[k].title = "" \/ SpecTitleTest(mt.track, LastResults[k])
                              /\ SpecArtistTest(mt.track, LastResults[k])}
          IN accepted # {} => ReturnsFirstOf(LastResults, accepted)
    /\ (NameSearchAnswered /\ HasEmptyArtist(mt.track)) =>
          LET titled == {k \in 1..Len(LastResults) : SpecTitleTest(mt.track, LastResults[k])}
          IN titled # {} => ReturnsFirstOf(LastResults, titled)
    /\ (mode = "match" /\ HasIsrc(mt.track) /\ HasEmptyArtist(mt.track)
           /\ Len(mt.answers) >= 1 /\ mt.answers[1].ok /\ Len(mt.answers[1].results) > 0) =>
          /\ mt.status = "done"
          /\ Len(mt.searches) = 1
          /\ mt.out = Returns(mt.answers[1].results[1].videoId)

\* "Song" by "Artist": the first candidate is "Different" without artists,
\* the second has no title and the artists "Else", "Artist".  The second is
\* returned, on its artists alone.
C36_Witness ==
    /\ NameSearchAnswered
    /\ mt.track = [name |-> "Song", artists |-> <<"Artist">>, isrc |-> ""]
    /\ Len(LastResults) = 2
    /\ LastResults[1].title = "Different"
    /\ LastResults[1].artists = <<>>
    /\ LastResults[2].title = ""
    /\ LastResults[2].artists = <<"Else", "Artist">>
    /\ mt.out = Returns("name-2")

----------------------------------------------------------------------------
(* migrate-all when one playlist gives up, checked under SpecCli. *)

\* migrate-all has ended because a migrate_playlist call ran out of retries.
GaveUpOnPlaylist ==
    /\ mode = "cli"
    /\ cli.command = "migrate-all"
    /\ cli.pc = "exited"
    /\ cli.raised.kind = "MaxRetriesExceededError"

\* The names of the first n playlists the command goes through.
FirstNames(n) == NamesOf(SubSeq(cli.playlists, 1, n))

\* C37: migrate-all hands the playlists to migrate_playlist one after the
\* other, in listing order, and nothing isolates them from each other.  When
\* the creation or the insert of playlist k runs out of retries, the command
\* exits with 1: playlists k+1.. are never attempted, no summary is printed,
\* and the destination keeps the playlists 1..k-1, and the shell of playlist
\* k when it was the insert that gave up.
C37_NoIsolationBetweenPlaylists ==
    /\ (mode = "cli" /\ cli.command = "migrate-all") =>
          /\ Len(cli.migrated) <= Len(cli.playlists)
          /\ NamesOf(cli.migrated) = FirstNames(Len(cli.migrated))
          /\ IsFrontOf(NamesOf(cli.playlists), NamesOf(cli.listing))
    /\ GaveUpOnPlaylist =>
          LET k == Len(cli.migrated) IN
          /\ k >= 1
          /\ cli.exit_code = 1
          /\ cli.clause = "max_retries"
          /\ ~cli.summary
          /\ Len(cli.results) = k - 1
          /\ cli.raised.operation = "create_playlist" =>
                cli.destination = FirstNames(k - 1)
          /\ cli.raised.operation = "add_tracks_to_playlist" =>
                cli.destination = FirstNames(k)

\* Two playlists listed, and the creation of the first gives up: the second
\* is never attempted, nothing is in the destination and the exit code is 1.
C37_Witness ==
    /\ GaveUpOnPlaylist
    /\ Len(cli.playlists) = 2
    /\ Len(cli.migrated) = 1
    /\ cli.raised.operation = "create_playlist"
    /\ cli.destination = <<>>
    /\ cli.exit_code = 1
    /\ ~cli.summary

----------------------------------------------------------------------------
(* What a failed insert leaves behind, checked under Spec. *)

\* The bulk insert has run out of retries.
InsertGaveUp ==
    /\ mode = "migrate"
    /\ pol.name = "add_tracks_to_playlist"
    /\ rs.status = "raised"

\* The first list is the beginning of the second.
Extends(before, after) ==
    Len(before) <= Len(after) /\ SubSeq(after, 1, Len(before)) = before

\* What the destination holds is only added to, and the id written to a
\* resolved track stays.
NothingUndone ==
    mode = "migrate" =>
        /\ Extends(mg.playlists, mg'.playlists)
        /\ Extends(mg.items, mg'.items)
        /\ \A j \in 1..Len(ResolvedTracks) :
              ResolvedTracks[j] < mg.i \/ mg.pc \in {"add", "done", "raised"} =>
                  mg'.youtube_id[ResolvedTracks[j]] = mg.youtube_id[ResolvedTracks[j]]

\* C38: there is no compensating rollback.  When the bulk insert runs out of
\* retries, migrate_playlist raises while the playlist shell created before
\* is still in the destination, empty, and every resolved track holds the
\* destination id written when it was resolved; no step ever removes a
\* playlist or an insert from the destination or takes back a written id.
C38_NoRollback ==
    /\ [](InsertGaveUp =>
            /\ rs.exc.kind = "MaxRetriesExceededError"
            /\ mg.pc = "raised" => (mg.exc = rs.exc /\ ~mg.returned)
            /\ mg.playlists = <<CreateArgs(mg.pl)>>
            /\ mg.yt_playlist_id = "PL1"
            /\ mg.items = <<>>
            /\ Len(mg.add_calls) = 3
            /\ Len(ResolvedTracks) >= 1
            /\ \A j \in 1..Len(ResolvedTracks) :
                  /\ TruthyStr(mg.youtube_id[ResolvedTracks[j]])
                  /\ mg.youtube_id[ResolvedTracks[j]] = mg.successful_track_ids[j]
                  /\ mg.youtube_id[ResolvedTracks[j]] = mg.add_calls[1].track_ids[j])
    /\ [][NothingUndone]_vars

\* The first track, which had no id, was resolved, the insert failed three
\* times and migrate_playlist has raised: the playlist is there and the
\* track holds its new id.
C38_Witness ==
    /\ InsertGaveUp
    /\ mg.pc = "raised"
    /\ Len(mg.pl.tracks) = 2
    /\ mg.pl.tracks[1].youtube_id = NoneStr
    /\ mg.youtube_id[1] = "t1-1"
    /\ mg.successful_track_ids = <<"t1-1">>
    /\ mg.failed_tracks = <<2>>
    /\ Len(mg.playlists) = 1
    /\ mg.items = <<>>

----------------------------------------------------------------------------
(* Termination and resource use of migrate_playlist.  migrate_playlist is   *)
(* one sequential call: once entered, its next statement runs, the          *)
(* destination answers every request made to it (with a value or with an    *)
(* exception) and time.sleep returns.  LiveSpec states this as weak         *)
(* fairness of the step relation of Spec: a run that has not ended goes on. *)

\* migrate_playlist has returned a result or raised.
Ended == mg.pc \in {"done", "raised"}

\* The guards of the five actions, taken together: a decorated call of one
\* of the three stages is running (its body is invoked next) or has just
\* ended (migrate_playlist takes over).
CanStep ==
    /\ mode = "migrate"
    /\ mg.pc \in {"create", "search", "add"}
    /\ rs.status \in {"running", "returned", "raised"}
    /\ mg.pc = "search" =>
          /\ mg.i \in 1..Len(mg.pl.tracks)
          /\ mg.phase \in {"start", "name"}

\* WF_vars(Next), with ENABLED <<Next>>_vars written out: a step of Next is
\* possible in exactly the states that are not Ended (CanStep holds in
\* every other reachable state, see WithinBudget).
Fairness == []<>Ended \/ []<><<Next>>_vars

\* The calls of Spec on a public playlist without description (what the
\* playlist says of itself goes into the creation request and nowhere else,
\* see CreateArgs).
LiveInit == MgInit /\ mg.pl.public /\ mg.pl.description = ""

LiveSpec == LiveInit /\ [][Next]_vars /\ Fairness

\* The searches one search_track call can make: two per attempt.
SearchesPerTrack == 2 * ServiceMaxAttempts

\* The tracks 1..n in order.
UpTo(n) == [k \in 1..n |-> k]

\* What the call in progress and the calls before it have used.
WithinBudget ==
    /\ Ended \/ CanStep
    /\ rs.calls <= ServiceMaxAttempts
    /\ Len(rs.waits) <= ServiceMaxAttempts - 1
    /\ Len(hist) = rs.calls
    /\ mg.pc = "create" => Len(mg.attempted) = 0 /\ Len(mg.add_calls) = 0
    /\ mg.searches <= SearchesPerTrack
    /\ mg.i <= Len(mg.pl.tracks)
    /\ mg.attempted = UpTo(mg.i)
    /\ Len(mg.add_calls) <= ServiceMaxAttempts
    /\ Len(mg.playlists) <= 1

\* The three stages come once each and in order: nothing is created after
\* the creation stage is left, a track that has been passed is never
\* searched again, and nothing follows the insert stage but the end.
OnePass ==
    /\ mg.pc # "create" =>
          /\ mg'.pc # "create"
          /\ mg'.create_args = mg.create_args
          /\ mg'.playlists = mg.playlists
    /\ mg'.i >= mg.i
    /\ mg.pc = "search" /\ mg'.i = mg.i => mg'.searches \in {mg.searches, mg.searches + 1}
    /\ mg.pc = "search" /\ mg'.i = mg.i => mg'.add_calls = mg.add_calls
    /\ mg.pc = "add" => mg'.pc \in {"add", "done", "raised"} /\ mg'.attempted = mg.attempted
    /\ Ended => mg' = mg

\* C39: every migrate_playlist call on a playlist of n tracks ends, by
\* returning a result or by raising, whatever the destination answers.  It
\* makes at most 3 create calls (one stage of at most 3 invocations), at
\* most 6 searches for each of the n tracks, each track searched in one
\* search_track call only (6n in all), at most 3 add-items calls, and at
\* most 2 waits in each retry-wrapped call.
C39_TerminatesWithinBudget ==
    /\ []WithinBudget
    /\ [][OnePass]_vars
    /\ <>Ended

\* The call has ended after using up its budget in the last two stages: the
\* last track took six searches and the insert was requested three times
\* with two waits between.
C39_Witness ==
    /\ Ended
    /\ Len(mg.pl.tracks) >= 1
    /\ mg.i = Len(mg.pl.tracks)
    /\ Len(mg.failed_tracks) >= 1
    /\ Len(mg.add_calls) = ServiceMaxAttempts
    /\ rs.calls = ServiceMaxAttempts
    /\ Len(rs.waits) = ServiceMaxAttempts - 1

============================================================================
